---- MODULE Spec2Model ----
(***************************************************************************)
(* A model of the prompt composer of src/motion-lite.js: the segmented     *)
(* composer (segments, drag/drop, removal), the block-token grammar of the *)
(* canonical string, and the contenteditable sync engine.                  *)
(*                                                                         *)
(* Strings are sequences of one-character strings.  Array positions are    *)
(* 0-based, as in the source; At0/Splice0/Slice0 translate them.           *)
(***************************************************************************)
EXTENDS Integers, Sequences, FiniteSets, TLC

VARIABLES
    segments,           \* useState<PromptSeg[]>            (line 109)
    hoveredDropIndex,   \* useState<number|null>            (line 128)
    blocks,             \* useState<Block[]>                (line 119)
    nextUid,            \* the ids uid() has handed out so far: 0..nextUid-1
    prompt,             \* useState('')                     (line 112)
    editingToken,       \* useState<null | {start,end,blockId,values}> (line 125)
    mounted,            \* editorRef.current is an element  (line 131)
    view,               \* editorRef.current.childNodes
    suppressSyncRef,    \* useRef(false)                    (line 132)
    skipInputRef,       \* useRef(false)                    (line 133)
    effectPending,      \* a render changed [prompt, blocks.length]; the effect
                        \* of line 240 has not run yet
    timers,             \* the setTimeout(..., 0) callbacks not yet run, in order
    editingBlock,       \* useState<null | {segmentId,blockId,values}> (line 124)
    creating,           \* the createBlock call awaiting its response, with
                        \* the blocks of the render that started it
    stored,             \* localStorage blocks_v1
    used,               \* the usage records of the last flattening
    posted,             \* the body of the last POST /api/generate, as the
                        \* server's JSON.parse reads it
    server,             \* the server process: its environment and the
                        \* response to the last POST /api/generate
    loading,            \* useState(false)                 (line 117)
    progress,           \* useState(0)                     (line 116)
    ticking,            \* useRef<number | null>(null)     (line 127); 0 is null
    useMock,            \* useState(true)                  (line 113)
    intervals,          \* the ids of the window's running intervals
    resetTimers,        \* the setTimeout(..., 800) callbacks not yet run
    generating,         \* the generate() call under way: where it waits, the
                        \* useMock of its render, its loop counter
    lastOp              \* history: the last operation and its arguments

syncVars == <<prompt, editingToken, mounted, view, suppressSyncRef, skipInputRef,
              effectPending, timers>>
uiVars == <<loading, progress, ticking, useMock, intervals, resetTimers, generating>>
genVars == <<used, posted, server, uiVars>>
blockVars == <<editingBlock, creating, stored, genVars>>
vars == <<segments, hoveredDropIndex, blocks, nextUid, lastOp, syncVars, blockVars>>

\* ------------------------------------------------------------------ bounds

\* uid() hands out the ids 0..MaxUid in a run and no more.
MaxUid == 4
\* The editor is explored while the prompt holds at most MaxTokens tokens
\* and MaxPlain characters outside tokens, and the view at most MaxElements
\* elements that are not token widgets.
MaxTokens == 1
MaxPlain == 1
MaxElements == 1
\* The strings the renderer is applied to are made of at most MaxPieces pieces.
MaxPieces == 3
\* Create Block is offered while there are fewer than MaxBlocks definitions,
\* and a custom parameter while a definition has fewer than MaxParams.
MaxBlocks == 2
MaxParams == 2
\* Tokens are inserted into prompts of at most MaxDropLen characters.
MaxDropLen == 14
\* Text edits are offered while the list holds at most this many characters.
MaxText == 3
\* The longest segment list the update functions are applied to on their own.
MaxList == 3
\* The longest segment list the merge pass is applied to.
MaxNormLen == 4
\* The longest segment list segments are moved in with any id.
MaxMoveLen == 3

\* ----------------------------------------------------------------- helpers

Max(a, b) == IF a >= b THEN a ELSE b
Min(a, b) == IF a <= b THEN a ELSE b

\* s[i] of a JavaScript array, i 0-based and in range.
At0(s, i) == s[i + 1]

\* Array.prototype.splice(start, 0, x): start is clamped to 0..length.
Splice0(s, start, x) ==
    LET k == Max(0, Min(start, Len(s)))
    IN  SubSeq(s, 1, k) \o <<x>> \o SubSeq(s, k + 1, Len(s))

\* Array.prototype.splice(from, 1) of an index in range: the array without it.
RemoveAt0(s, from) == SubSeq(s, 1, from) \o SubSeq(s, from + 2, Len(s))

\* Array.prototype.findIndex over a predicate given as the set of matching
\* 0-based positions: the least one, or -1.
FirstOf(S) == IF S = {} THEN -1 ELSE CHOOSE i \in S : \A j \in S : i <= j

\* ------------------------------------------------------------------ strings

\* The characters strings are made of.  Code(c) is a character's place here.
Alphabet ==
    << "[", "]", ":", " ", "=", "\"", "\\", "&", "<", ">", ";", "-", "_", "$",
       "0", "1", "2", "3", "4", "5", "6", "7", "8", "9",
       "a", "b", "c", "d", "e", "f", "g", "h", "i", "k", "l", "m", "n", "o",
       "p", "r", "s", "t", "u", "x", "z", "A", "B", "E", "K", "M", "R", "S", "T",
       "v", "w", "y", "N", "{", "}", ",", "§" >>
Chars == {Alphabet[i] : i \in 1..Len(Alphabet)}
Digits == {"0", "1", "2", "3", "4", "5", "6", "7", "8", "9"}
\* [\w-] of the token pattern: letters, digits, "_" and "-".
IdChars == Chars \ {"[", "]", ":", " ", "=", "\"", "\\", "&", "<", ">", ";", "$",
                    "{", "}", ",", "§"}
\* \s of split(/\s+/) and trim().
Whitespace == {" "}

\* text.slice(from, to), 0-based, to exclusive.
Slice0(s, from, to) == SubSeq(s, from + 1, to)

\* Whether string p occurs in s at 0-based position i.
OccursAt(s, p, i) == i + Len(p) <= Len(s) /\ Slice0(s, i, i + Len(p)) = p

\* s.indexOf(p, from): the first 0-based position >= from where p occurs, or -1.
IndexOfFrom(s, p, from) == FirstOf({i \in from..(Len(s) - Len(p)) : OccursAt(s, p, i)})
IndexOf(s, p) == IndexOfFrom(s, p, 0)

\* parts.join(sep) of a sequence of strings.
RECURSIVE Join(_, _)
Join(parts, sep) ==
    IF parts = <<>> THEN <<>>
    ELSE IF Len(parts) = 1 THEN parts[1]
    ELSE parts[1] \o sep \o Join(Tail(parts), sep)

\* s.trim().
RECURSIVE TrimLeft(_)
TrimLeft(s) == IF s # <<>> /\ Head(s) \in Whitespace THEN TrimLeft(Tail(s)) ELSE s
RECURSIVE TrimRight(_)
TrimRight(s) ==
    IF s # <<>> /\ s[Len(s)] \in Whitespace THEN TrimRight(SubSeq(s, 1, Len(s) - 1)) ELSE s
Trim(s) == TrimRight(TrimLeft(s))

\* s.split(/\s+/).filter(Boolean): the maximal runs of non-whitespace.
RECURSIVE SplitWords(_, _, _)
SplitWords(s, cur, acc) ==
    IF s = <<>> THEN (IF cur = <<>> THEN acc ELSE Append(acc, cur))
    ELSE IF Head(s) \in Whitespace
         THEN SplitWords(Tail(s), <<>>, IF cur = <<>> THEN acc ELSE Append(acc, cur))
         ELSE SplitWords(Tail(s), Append(cur, Head(s)), acc)
Words(s) == SplitWords(s, <<>>, <<>>)

\* --------------------------------------------------------- JSON scalars

\* A JavaScript value of a parameter: a string, a number, a boolean, null, or
\* undefined (an absent key).  One record shape for all of them.
StrV(s)  == [t |-> "str",  s |-> s,    n |-> 0]
NumV(n)  == [t |-> "num",  s |-> <<>>, n |-> n]
BoolV(b) == [t |-> "bool", s |-> <<>>, n |-> IF b THEN 1 ELSE 0]
NullV    == [t |-> "null", s |-> <<>>, n |-> 0]
\* NaN, the number Number() makes of text that is no numeral.
NaN      == [t |-> "nan",  s |-> <<>>, n |-> 0]
Undef    == [t |-> "undef", s |-> <<>>, n |-> 0]

\* A Record<string, any>: a function from the keys present to their values.
EmptyMap == [k \in {} |-> Undef]
\* obj[key]: undefined when the key is absent.
Get(map, key) == IF key \in DOMAIN map THEN map[key] ELSE Undef


\* Number.prototype.toString of an integer.
RECURSIVE DigitsOf(_)
DigitsOf(n) ==
    IF n < 10 THEN <<Alphabet[15 + n]>> ELSE DigitsOf(n \div 10) \o <<Alphabet[15 + (n % 10)]>>
NumText(n) == IF n < 0 THEN <<"-">> \o DigitsOf(0 - n) ELSE DigitsOf(n)

\* The value of a run of digits.
DigitVal(c) == CHOOSE d \in 0..9 : Alphabet[15 + d] = c
RECURSIVE DecimalOf(_)
DecimalOf(ds) ==
    IF ds = <<>> THEN 0 ELSE 10 * DecimalOf(SubSeq(ds, 1, Len(ds) - 1)) + DigitVal(ds[Len(ds)])

\* The body of a JSON string literal: quotes and backslashes escaped.
RECURSIVE EscapeJson(_)
EscapeJson(s) ==
    IF s = <<>> THEN <<>>
    ELSE (IF Head(s) \in {"\"", "\\"} THEN <<"\\", Head(s)>> ELSE <<Head(s)>>)
             \o EscapeJson(Tail(s))

TrueText == <<"t","r","u","e">>
FalseText == <<"f","a","l","s","e">>
NullText == <<"n","u","l","l">>
UndefinedText == <<"u","n","d","e","f","i","n","e","d">>

\* `${JSON.stringify(v)}` (line 321): JSON.stringify(undefined) is undefined,
\* which the template prints as "undefined".
JsonStringify(v) ==
    CASE v.t = "str"  -> <<"\"">> \o EscapeJson(v.s) \o <<"\"">>
      [] v.t = "num"  -> NumText(v.n)
      [] v.t = "bool" -> (IF v.n = 1 THEN TrueText ELSE FalseText)
      [] v.t = "null" -> NullText
      [] v.t = "nan"  -> NullText
      [] OTHER        -> UndefinedText

\* The string a JSON string-literal body denotes, or Fail when it is not one:
\* a bare quote, or a backslash not followed by a quote or a backslash.
Fail == [t |-> "fail", s |-> <<>>, n |-> 0]
RECURSIVE UnescapeJson(_, _)
UnescapeJson(body, acc) ==
    IF body = <<>> THEN StrV(acc)
    ELSE IF Head(body) = "\"" THEN Fail
    ELSE IF Head(body) = "\\"
         THEN IF Len(body) >= 2 /\ body[2] \in {"\"", "\\"}
              THEN UnescapeJson(SubSeq(body, 3, Len(body)), Append(acc, body[2]))
              ELSE Fail
    ELSE UnescapeJson(Tail(body), Append(acc, Head(body)))

IsJsonInt(ds) ==
    /\ ds # <<>>
    /\ \A i \in 1..Len(ds) : ds[i] \in Digits
    /\ (Len(ds) > 1 => ds[1] # "0")

\* JSON.parse(v) of a string without whitespace: the scalar it denotes, or
\* Fail where JSON.parse throws.
JsonParse(v) ==
    IF v = TrueText THEN BoolV(TRUE)
    ELSE IF v = FalseText THEN BoolV(FALSE)
    ELSE IF v = NullText THEN NullV
    ELSE IF IsJsonInt(v) THEN NumV(DecimalOf(v))
    ELSE IF Len(v) >= 2 /\ v[1] = "-" /\ IsJsonInt(Tail(v)) THEN NumV(0 - DecimalOf(Tail(v)))
    ELSE IF Len(v) >= 2 /\ v[1] = "\"" /\ v[Len(v)] = "\""
         THEN UnescapeJson(SubSeq(v, 2, Len(v) - 1), <<>>)
    ELSE Fail

\* try { params[k] = JSON.parse(v); } catch { params[k] = v; }  (line 782)
DecodeLiteral(v) == IF JsonParse(v) = Fail THEN StrV(v) ELSE JsonParse(v)

\* JSON.parse(JSON.stringify(v)) of a property value: a property whose value
\* is undefined is left out, so it reads as undefined again.
Transported(v) == IF v.t = "undef" THEN Undef ELSE JsonParse(JsonStringify(v))

\* a ?? b
Coalesce(a, b) == IF a.t \in {"null", "undef"} THEN b ELSE a

\* ------------------------------------------------------ block definitions

\* The block definitions the session starts with (read from blocks_v1).
DefSpeed == [id |-> <<"b","1">>, name |-> <<"S","p","i","n">>,
             params |-> << [key |-> <<"s">>, type |-> "number", default |-> NumV(1)] >>]
DefTitle == [id |-> <<"b","2">>, name |-> <<"T","i","t","l","e">>,
             params |-> << [key |-> <<"t">>, type |-> "text", default |-> StrV(<<"x">>)],
                           [key |-> <<"n">>, type |-> "number", default |-> NumV(2)] >>]
StoredBlocks == << [def |-> DefSpeed], [def |-> DefTitle] >>
\* The definitions the segmented composer is explored with.
ComposerBlocks == << [def |-> DefSpeed] >>

\* blocks.find(b => b.def.id === id): the 1-based position, or 0.
FindBlock(bs, id) ==
    LET S == {i \in 1..Len(bs) : bs[i].def.id = id}
    IN  IF S = {} THEN 0 ELSE CHOOSE i \in S : \A j \in S : i <= j

\* A block id that no definition carries.
UnknownBlockId == <<"z","z">>

\* ------------------------------------------------------------ token grammar

TokenOpen == <<"[","[","B","l","o","c","k",":">>
TokenClose == <<"]","]">>

\* The end of the maximal run of characters of set S that starts at 0-based
\* position i of text.
RECURSIVE RunEnd(_, _, _)
RunEnd(text, i, S) == IF i < Len(text) /\ At0(text, i) \in S THEN RunEnd(text, i + 1, S) ELSE i

\* /\[\[Block:([\w-]+)([^\]]*)\]\]/ tried at 0-based position i: the match
\* [start, end, id, rest], or NoMatch.  The id is the longest run of id
\* characters, the rest runs to the first "]", and "]]" has to stand there;
\* giving characters back changes neither the end nor the outcome.
NoMatch == [start |-> -1, end |-> -1, id |-> <<>>, rest |-> <<>>]
MatchAt(text, i) ==
    IF ~OccursAt(text, TokenOpen, i) THEN NoMatch
    ELSE LET idStart == i + Len(TokenOpen)
             idEnd == RunEnd(text, idStart, IdChars)
             restEnd == RunEnd(text, idEnd, Chars \ {"]"})
         IN  IF idEnd > idStart /\ OccursAt(text, TokenClose, restEnd)
             THEN [start |-> i, end |-> restEnd + Len(TokenClose),
                   id |-> Slice0(text, idStart, idEnd), rest |-> Slice0(text, idEnd, restEnd)]
             ELSE NoMatch

\* regex.exec(text) with lastIndex = from: the leftmost match at or after from.
ExecFrom(text, from) ==
    LET S == {i \in from..Len(text) : MatchAt(text, i) # NoMatch}
    IN  IF S = {} THEN NoMatch ELSE MatchAt(text, FirstOf(S))

\* The loop with the search resumed one character after a match's start.
RECURSIVE MatchesFromOverlapping(_, _)
MatchesFromOverlapping(text, from) ==
    LET m == ExecFrom(text, from)
    IN  IF m = NoMatch THEN <<>> ELSE <<m>> \o MatchesFromOverlapping(text, m.start + 1)

\* The matches of the whole `while ((m = regex.exec(text)))` loop, in order.
RECURSIVE MatchesFrom(_, _)
MatchesFrom(text, from) ==
    LET m == ExecFrom(text, from)
    IN  IF m = NoMatch THEN <<>> ELSE <<m>> \o MatchesFrom(text, m.end)
Matches(text) == MatchesFrom(text, 0)

\* The forEach with the try around the whole loop: a value that is no JSON
\* literal is kept raw and ends the loop.
RECURSIVE ParamsOfWordsAbort(_, _)
ParamsOfWordsAbort(words, params) ==
    IF words = <<>> THEN params
    ELSE LET kv == Head(words)
             eq == IndexOf(kv, <<"=">>)
         IN  IF eq > 0
             THEN LET k == Slice0(kv, 0, eq)
                      v == Slice0(kv, eq + 1, Len(kv))
                      set == [x \in (DOMAIN params) \cup {k} |->
                                 IF x = k THEN DecodeLiteral(v) ELSE params[x]]
                  IN  IF JsonParse(v) = Fail THEN set
                      ELSE ParamsOfWordsAbort(Tail(words), set)
             ELSE ParamsOfWordsAbort(Tail(words), params)

\* The forEach over the key=value words (line 782): a word with "=" after its
\* first character sets params[k]; a later word overrides an earlier one.
RECURSIVE ParamsOfWords(_, _)
ParamsOfWords(words, params) ==
    IF words = <<>> THEN params
    ELSE LET kv == Head(words)
             eq == IndexOf(kv, <<"=">>)
         IN  IF eq > 0
             THEN LET k == Slice0(kv, 0, eq)
                      v == Slice0(kv, eq + 1, Len(kv))
                  IN  ParamsOfWords(Tail(words),
                          [x \in (DOMAIN params) \cup {k} |->
                              IF x = k THEN DecodeLiteral(v) ELSE params[x]])
             ELSE ParamsOfWords(Tail(words), params)
ParseParams(rest) == ParamsOfWords(Words(Trim(rest)), EmptyMap)

\* findTokenByIndex (lines 774-788); NoToken is its null.
NoToken == [start |-> -1, end |-> -1, blockId |-> <<>>, params |-> EmptyMap]
findTokenByIndex(text, index) ==
    IF index < 0 \/ index >= Len(Matches(text)) THEN NoToken
    ELSE LET m == At0(Matches(text), index)
         IN  [start |-> m.start, end |-> m.end, blockId |-> m.id, params |-> ParseParams(m.rest)]

\* `[[Block:${blockId}]]` of onEditorDrop (line 195).
BareToken(blockId) == TokenOpen \o blockId \o TokenClose

\* `${p.key}=${JSON.stringify(editingToken.values[p.key] ?? p.default)}`
ParamText(p, values) == p.key \o <<"=">> \o JsonStringify(Coalesce(Get(values, p.key), p.default))

\* tokenText with the parameters listed last to first.
TokenTextReversed(def, values) ==
    TokenOpen \o def.id \o <<" ">>
        \o Join([i \in 1..Len(def.params) |->
                    ParamText(def.params[Len(def.params) + 1 - i], values)], <<" ">>)
        \o TokenClose

\* tokenText of saveEditingToken (lines 321-322).
TokenText(def, values) ==
    TokenOpen \o def.id \o <<" ">>
        \o Join([i \in 1..Len(def.params) |-> ParamText(def.params[i], values)], <<" ">>)
        \o TokenClose

\* ------------------------------------------------------------ editor view

\* escapeHTML (line 797).
RECURSIVE escapeHTML(_)
escapeHTML(s) ==
    IF s = <<>> THEN <<>>
    ELSE (CASE Head(s) = "&" -> <<"&","a","m","p",";">>
            [] Head(s) = "<" -> <<"&","l","t",";">>
            [] Head(s) = ">" -> <<"&","g","t",";">>
            [] OTHER         -> <<Head(s)>>) \o escapeHTML(Tail(s))

\* The character data the HTML parser makes of markup without tags: the
\* references amp, lt and gt, with or without their semicolon, become the
\* character they name; any other "&" stays.  (No other named reference is
\* modelled.)
CharRefs == << [name |-> <<"&","a","m","p">>, char |-> "&"],
               [name |-> <<"&","l","t">>,     char |-> "<"],
               [name |-> <<"&","g","t">>,     char |-> ">"] >>
RECURSIVE DecodeCharRefs(_)
DecodeCharRefs(h) ==
    IF h = <<>> THEN <<>>
    ELSE LET R == {i \in 1..Len(CharRefs) : OccursAt(h, CharRefs[i].name, 0)}
         IN  IF R = {} THEN <<Head(h)>> \o DecodeCharRefs(Tail(h))
             ELSE LET r == CharRefs[CHOOSE i \in R : TRUE]
                      n == Len(r.name)
                      m == IF OccursAt(h, <<";">>, n) THEN n + 1 ELSE n
                  IN  <<r.char>> \o DecodeCharRefs(SubSeq(h, m + 1, Len(h)))

\* encodeAttr / decodeAttr (lines 798-799): base64 of the UTF-8 bytes, here
\* the sequence of the characters' codes; decoding reads the codes back.
Code(c) == CHOOSE i \in 1..Len(Alphabet) : Alphabet[i] = c
encodeAttr(s) == [i \in 1..Len(s) |-> Code(s[i])]
decodeAttr(e) == [i \in 1..Len(e) |-> Alphabet[e[i]]]

\* blockLabelFor (line 790): 'Block ' + id.slice(-4).
blockLabelFor(id) ==
    <<"B","l","o","c","k"," ">> \o SubSeq(id, Max(1, Len(id) - 3), Len(id))

\* DOM nodes of the editor.  A text node carries its text in s.  A token
\* widget (span.block-token) carries data-token-index in idx, data-token in
\* tok, data-block-id in bid and its label text in s.  An element node stands
\* for any other element without text (the <br> a line break inserts).
TextNode(s) == [k |-> "text", s |-> s, idx |-> -1, tok |-> <<>>, bid |-> <<>>]
TokenNode(idx, tok, bid, label) == [k |-> "token", s |-> label, idx |-> idx, tok |-> tok, bid |-> bid]
ElementNode == [k |-> "element", s |-> <<>>, idx |-> -1, tok |-> <<>>, bid |-> <<>>]

\* The label of a token (lines 224-226): the definition's name, or the
\* fallback when there is none.
LabelOf(bs, id) ==
    IF FindBlock(bs, id) # 0 /\ bs[FindBlock(bs, id)].def.name # <<>>
    THEN bs[FindBlock(bs, id)].def.name
    ELSE blockLabelFor(id)

\* renderPromptHTML (lines 217-234): the parts pushed, in order.  A text part
\* holds escaped markup in s; a token part holds the span's attributes and
\* its escaped label.
RECURSIVE RenderParts(_, _, _, _, _)
RenderParts(text, bs, ms, last, i) ==
    IF ms = <<>>
    THEN (IF last < Len(text) THEN <<TextNode(escapeHTML(Slice0(text, last, Len(text))))>> ELSE <<>>)
    ELSE LET m == Head(ms)
             before == IF m.start > last
                       THEN <<TextNode(escapeHTML(Slice0(text, last, m.start)))>>
                       ELSE <<>>
             token == TokenNode(i, encodeAttr(Slice0(text, m.start, m.end)), encodeAttr(m.id),
                                escapeHTML(LabelOf(bs, m.id)))
         IN  before \o <<token>> \o RenderParts(text, bs, Tail(ms), m.end, i + 1)
renderPromptHTML(text, bs) == RenderParts(text, bs, Matches(text), 0, 0)

\* el.innerHTML = html: the nodes the parser builds of the joined parts.
ParseHTML(parts) == [i \in 1..Len(parts) |-> [parts[i] EXCEPT !.s = DecodeCharRefs(@)]]

\* visit(n) reading a widget's label instead of its data-token.
NodeTextLabel(n) ==
    CASE n.k = "token" -> n.s
      [] n.k = "text"  -> n.s
      [] OTHER         -> <<>>

\* What visit(n) adds to out (lines 248-261).
NodeText(n) ==
    CASE n.k = "token" -> decodeAttr(n.tok)
      [] n.k = "text"  -> n.s
      [] OTHER         -> <<>>

\* The loop of textFromEditor over el.childNodes (line 262).
RECURSIVE ViewText(_)
ViewText(nodes) == IF nodes = <<>> THEN <<>> ELSE NodeText(Head(nodes)) \o ViewText(Tail(nodes))

\* textFromEditor (lines 245-264) with editorRef.current and prompt as given.
textFromEditor(isMounted, nodes, text) == IF ~isMounted THEN text ELSE ViewText(nodes)

\* null of editingToken.
NoEditing == [start |-> -1, end |-> -1, blockId |-> <<>>, values |-> EmptyMap]

\* ---------------------------------------------------------- editor contents

\* The text of the marker node (line 278).
Marker == <<"§","§","M","A","R","K","E","R","§","§">>

\* s.replace(pat, r) with a string pattern: the first occurrence is replaced.
ReplaceFirst(s, pat, r) ==
    LET i == IndexOf(s, pat)
    IN  IF i = -1 THEN s ELSE Slice0(s, 0, i) \o r \o Slice0(s, i + Len(pat), Len(s))

\* Where the selection's range can be when a token is inserted.  [at, off]:
\* off = -1 is the gap after the first `at` nodes (the end of the editor is
\* where the range is put when the selection is elsewhere, lines 270-275);
\* off >= 1 is inside text node `at`, after off characters; off = 0 is
\* inside the label of token widget `at`.
Carets(nodes) ==
    {[at |-> j, off |-> -1] : j \in 0..Len(nodes)}
        \cup UNION {{[at |-> j, off |-> o] : o \in 1..(Len(nodes[j].s) - 1)} :
                        j \in {i \in 1..Len(nodes) : nodes[i].k = "text"}}
        \cup {[at |-> j, off |-> 0] : j \in {i \in 1..Len(nodes) : nodes[i].k = "token"}}

\* range.insertNode(marker) (line 279): the marker node goes into the gap,
\* splits the text node, or lands in the widget's label.
InsertMarker(nodes, caret) ==
    LET j == caret.at
    IN  IF caret.off = -1
        THEN SubSeq(nodes, 1, j) \o <<TextNode(Marker)>> \o SubSeq(nodes, j + 1, Len(nodes))
        ELSE IF caret.off = 0
        THEN [nodes EXCEPT ![j].s = Marker \o @]
        ELSE SubSeq(nodes, 1, j - 1)
                 \o << TextNode(SubSeq(nodes[j].s, 1, caret.off)), TextNode(Marker),
                       TextNode(SubSeq(nodes[j].s, caret.off + 1, Len(nodes[j].s))) >>
                 \o SubSeq(nodes, j + 1, Len(nodes))

\* The editor's contents after the user inserts text s at the end.
InsertAtEnd(nodes, s) ==
    IF nodes # <<>> /\ nodes[Len(nodes)].k = "text"
    THEN [nodes EXCEPT ![Len(nodes)].s = @ \o s]
    ELSE Append(nodes, TextNode(s))

\* The editor's contents after Backspace at the end: the last character of a
\* text node goes, or the whole last node.
DeleteAtEnd(nodes) ==
    LET n == Len(nodes)
    IN  IF nodes[n].k = "text" /\ Len(nodes[n].s) > 1
        THEN [nodes EXCEPT ![n].s = SubSeq(@, 1, Len(@) - 1)]
        ELSE SubSeq(nodes, 1, n - 1)

\* The contents as innerHTML tells them apart: adjacent text nodes are one
\* run of text and empty text nodes are nothing.
RECURSIVE Normalize(_, _)
Normalize(acc, nodes) ==
    IF nodes = <<>> THEN acc
    ELSE LET x == Head(nodes)
             n == Len(acc)
         IN  IF x.k = "text" /\ x.s = <<>> THEN Normalize(acc, Tail(nodes))
             ELSE IF x.k = "text" /\ n > 0 /\ acc[n].k = "text"
             THEN Normalize([acc EXCEPT ![n].s = @ \o x.s], Tail(nodes))
             ELSE Normalize(Append(acc, x), Tail(nodes))
SameContents(a, b) == Normalize(<<>>, a) = Normalize(<<>>, b)

\* The characters of text outside its tokens.
RECURSIVE MatchedLen(_)
MatchedLen(ms) == IF ms = <<>> THEN 0 ELSE (Head(ms).end - Head(ms).start) + MatchedLen(Tail(ms))
PlainLen(text) == Len(text) - MatchedLen(Matches(text))

\* ---------------------------------------------------------------- segments

TextSeg(id, value) ==
    [type |-> "text", id |-> id, value |-> value, blockId |-> <<>>, values |-> EmptyMap]
BlockSeg(id, blockId, values) ==
    [type |-> "block", id |-> id, value |-> <<>>, blockId |-> blockId, values |-> values]

SegIds(segs) == {segs[i].id : i \in 1..Len(segs)}

\* uid() (line 832): the k-th id handed out after `next` ids were; ids are
\* random strings in the source and taken to be distinct.
uid(next, k) == next + k

\* The text the composer starts with (line 110), abbreviated.
InitialText == <<"h","i">>

\* prev.findIndex(s => s.id === segId), 0-based, -1 when absent.
IndexOfSeg(segs, segId) == FirstOf({i \in 0..(Len(segs) - 1) : At0(segs, i).id = segId})

\* The merge pass that stops merging after its first merge.
RECURSIVE MergeTextOnce(_, _)
MergeTextOnce(merged, rest) ==
    IF rest = <<>> THEN merged
    ELSE LET s == Head(rest)
             n == Len(merged)
         IN  IF n > 0 /\ merged[n].type = "text" /\ s.type = "text"
             THEN [merged EXCEPT ![n].value = merged[n].value \o s.value] \o Tail(rest)
             ELSE MergeTextOnce(Append(merged, s), Tail(rest))

\* The merge pass with "=" in place of "+=": the later Text value replaces the
\* earlier one.
RECURSIVE MergeTextOverwrite(_, _)
MergeTextOverwrite(merged, rest) ==
    IF rest = <<>> THEN merged
    ELSE LET s == Head(rest)
             n == Len(merged)
         IN  IF n > 0 /\ merged[n].type = "text" /\ s.type = "text"
             THEN MergeTextOverwrite([merged EXCEPT ![n].value = s.value], Tail(rest))
             ELSE MergeTextOverwrite(Append(merged, s), Tail(rest))

\* The merge pass of removeSeg (lines 373-378): a Text segment that follows a
\* Text segment is appended to it, anything else is pushed.
RECURSIVE MergeText(_, _)
MergeText(merged, rest) ==
    IF rest = <<>> THEN merged
    ELSE LET s == Head(rest)
             n == Len(merged)
         IN  IF n > 0 /\ merged[n].type = "text" /\ s.type = "text"
             THEN MergeText([merged EXCEPT ![n].value = merged[n].value \o s.value], Tail(rest))
             ELSE MergeText(Append(merged, s), Tail(rest))

\* What removeSeg does to the filtered list (lines 372-380): the merge pass,
\* then a Text '' when nothing is left.
MergePass(next, next0) ==
    LET merged == MergeText(<<>>, next)
    IN  IF Len(merged) = 0 THEN <<TextSeg(uid(next0, 0), <<>>)>> ELSE merged

\* removeSeg's update function (lines 370-381).
removeSeg(prev, id, next0) == MergePass(SelectSeq(prev, LAMBDA s : s.id # id), next0)

\* moveSegment without the index adjustment of line 394.
moveSegmentNoShift(prev, segId, index) ==
    LET from == IndexOfSeg(prev, segId)
    IN  IF from = -1 THEN prev
        ELSE Splice0(RemoveAt0(prev, from), index, At0(prev, from))

\* The list removeSeg was given, after the update function has run: filter
\* (line 371) copies the array, not the segments, so `last` of line 375 is a
\* segment of prev, and `+=` (line 376) changes its value in prev as well.
removeSegInput(prev, id) ==
    LET merged == MergeText(<<>>, SelectSeq(prev, LAMBDA s : s.id # id))
    IN  [i \in 1..Len(prev) |->
            IF \E j \in 1..Len(merged) : merged[j].id = prev[i].id
            THEN merged[CHOOSE j \in 1..Len(merged) : merged[j].id = prev[i].id]
            ELSE prev[i]]

\* moveSegment with the source left in place: the splice of line 392 is missing.
moveSegmentKeepSource(prev, segId, index) ==
    LET from == IndexOfSeg(prev, segId)
    IN  IF from = -1 THEN prev
        ELSE Splice0(prev, IF from < index THEN Max(0, index - 1) ELSE index, At0(prev, from))

\* moveSegment's update function (lines 388-397).
moveSegment(prev, segId, index) ==
    LET from == IndexOfSeg(prev, segId)
    IN  IF from = -1 THEN prev
        ELSE LET seg == At0(prev, from)
                 next == RemoveAt0(prev, from)
                 to == IF from < index THEN Max(0, index - 1) ELSE index
             IN  Splice0(next, to, seg)

\* The values of line 413 with a misspelt `default`: every key undefined.
DefaultValuesUndefined(def) ==
    [k \in {def.params[i].key : i \in 1..Len(def.params)} |-> Undef]

\* values of a freshly dropped block: every declared parameter's default
\* (line 413).
DefaultValues(def) ==
    LET keys == {def.params[i].key : i \in 1..Len(def.params)}
    IN  [k \in keys |->
            LET i == CHOOSE j \in 1..Len(def.params) :
                        /\ def.params[j].key = k
                        /\ \A m \in (j + 1)..Len(def.params) : def.params[m].key # k
            IN  def.params[i].default]

\* Where the second flanking Text segment is spliced in, given the position
\* it is needed at (line 423).
AfterSpliceAt(ensureAfter) == ensureAfter + 1

\* handleDrop's update function for a block definition (lines 414-425).
insertBlock(prev, targetIndex, blockId, values, next0) ==
    LET insertAt == Max(0, Min(targetIndex, Len(prev)))
        newId == uid(next0, 0)
        n1 == Splice0(prev, insertAt, BlockSeg(newId, blockId, values))
        n2 == IF insertAt = 0 \/ At0(n1, insertAt - 1).type # "text"
              THEN Splice0(n1, insertAt, TextSeg(uid(next0, 1), <<>>))
              ELSE n1
        wanted == IF At0(n2, insertAt).type = "block"
                  THEN At0(n2, insertAt).id ELSE At0(n2, insertAt + 1).id
        blockPos == FirstOf({i \in 0..(Len(n2) - 1) :
                                At0(n2, i).type = "block" /\ At0(n2, i).id = wanted})
        ensureAfter == blockPos + 1
    IN  IF ensureAfter >= Len(n2) \/ At0(n2, ensureAfter).type # "text"
        THEN Splice0(n2, AfterSpliceAt(ensureAfter),
                     TextSeg(uid(next0, Len(n2) - Len(prev)), <<>>))
        ELSE n2

\* The ids in use after an update function has run: those handed out before,
\* and the new segments' ids.
UidsAfter(next0, segs) ==
    LET S == {segs[i].id + 1 : i \in 1..Len(segs)} \cup {next0}
    IN  CHOOSE n \in S : \A m \in S : m <= n

TotalText(segs) == LET RECURSIVE Sum(_)
                       Sum(i) == IF i = 0 THEN 0 ELSE Len(segs[i].value) + Sum(i - 1)
                   IN  Sum(Len(segs))

\* What a text area can be set to in one edit.
TextInputs == {<<"a">>}

\* The insertion indices of a list: one per gap, 0 before the first segment
\* (the position moveSegment and handleDrop clamp to, lines 394 and 416).
DropIndices(segs) == 0..Len(segs)

\* The indices of the drop zones the page renders: the zone after segment
\* idx carries idx+1 (line 523); there is no zone before the first segment.
DropZones(segs) == 1..Len(segs)

\* lastOp: op names the operation; id is the new Block segment of an
\* insertion or the segment a move or a removal asked for; dir tells, for a move from
\* position p to target index t, whether the segment went forward past
\* another one (p + 1 < t), stayed (p = t or p + 1 = t) or went back (t < p).
Op(op, id, dir) == [op |-> op, id |-> id, dir |-> dir]
NoOp == Op("none", -1, "-")
MoveDir(p, t) == IF p + 1 < t THEN "forward" ELSE IF t < p THEN "back" ELSE "stay"

\* ----------------------------------------------------------------- actions

\* The editor state after the first render and its effect: an empty prompt,
\* rendered into an empty view, no dialog, both flags false.
InitEditor ==
    /\ prompt = <<>>
    /\ editingToken = NoEditing
    /\ view = <<>>
    /\ suppressSyncRef = FALSE
    /\ skipInputRef = FALSE
    /\ effectPending = FALSE
    /\ timers = <<>>

\* null of editingBlock.
NoEditingBlock == [segmentId |-> -1, blockId |-> <<>>, values |-> EmptyMap]
\* No createBlock call is under way.
NoRequest == [active |-> FALSE, blocks |-> <<>>]
\* No request has been posted to /api/generate.
NoBody == [sent |-> FALSE, received |-> FALSE, ctx |-> <<>>, prompt |-> <<>>,
           blocks |-> <<>>, durationHintSec |-> 0, json |-> TRUE, guidanceImage |-> 0]

\* No model call has been made and nothing has been answered.
NoOutcome == [t |-> "none"]
\* The server process as started (transpile.ts lines 29-31): whether
\* OPENAI_API_KEY is set, DEV_FALLBACK lowercased, and no response yet.
toLowerCase(s) == CASE s = "TRUE" -> "true" [] s = "On" -> "on" [] OTHER -> s
Started(hasKey, devFallback) ==
    [hasKey |-> hasKey, DEV_FALLBACK |-> toLowerCase(devFallback), status |-> 0,
     body |-> NoOutcome, fallbackHeader |-> FALSE, upstream |-> NoOutcome]

\* No generate() call is under way.
NotGenerating == [at |-> "idle", mock |-> FALSE, p |-> 0]
\* The generation controls as the page starts (lines 113-117, 127).
InitUi ==
    /\ loading = FALSE
    /\ progress = 0
    /\ ticking = 0
    /\ useMock = TRUE
    /\ intervals = {}
    /\ resetTimers = 0
    /\ generating = NotGenerating

\* The definitions as read from blocks_v1 (lines 119-122), no dialog, no call.
InitBlocks(bs) ==
    /\ blocks = bs
    /\ stored = bs
    /\ editingBlock = NoEditingBlock
    /\ creating = NoRequest
    /\ used = <<>>
    /\ posted = NoBody
    /\ InitUi
    /\ server = Started(FALSE, "")

InitSeg ==
    /\ segments = <<TextSeg(0, InitialText)>>
    /\ hoveredDropIndex = -1          \* null
    /\ nextUid = 1                    \* the initial Text segment's uid()
    /\ lastOp = NoOp

\* handleDragEnter / handleDragOver (lines 384, 386).
HandleDragEnter ==
    \E index \in DropZones(segments) :
        /\ hoveredDropIndex' = index
        /\ UNCHANGED <<segments, lastOp, blocks, blockVars, nextUid, syncVars>>

\* handleDragLeave (line 385).
HandleDragLeave ==
    \E index \in DropZones(segments) :
        /\ hoveredDropIndex = index
        /\ hoveredDropIndex' = -1
        /\ UNCHANGED <<segments, lastOp, blocks, blockVars, nextUid, syncVars>>

\* The slot handleDrop works on (line 403).
TargetIndex(index) == IF hoveredDropIndex # -1 THEN hoveredDropIndex ELSE index

\* handleDrop with segment id segId in the payload (lines 404-409).
DropMove(segId, index) ==
    /\ segments' = moveSegment(segments, segId, TargetIndex(index))
    /\ hoveredDropIndex' = -1
    /\ lastOp' = Op("move", segId, MoveDir(IndexOfSeg(segments, segId), TargetIndex(index)))
    /\ UNCHANGED <<blocks, blockVars, nextUid, syncVars>>

\* The segments that can be dragged and removed in the page: the block
\* chips (draggable with their segment id, line 510; Remove button, line 516).
BlockSegIds(segs) == {segs[i].id : i \in {j \in 1..Len(segs) : segs[j].type = "block"}}

HandleDropMove ==
    \E index \in DropZones(segments), segId \in BlockSegIds(segments) :
        DropMove(segId, index)

\* moveSegment called with any segment id of the list.
MoveAnySeg ==
    \E index \in DropIndices(segments), segId \in SegIds(segments) :
        DropMove(segId, index)

\* handleDrop with the id of definition blocks[b] in the payload (lines 410-426).
DropBlock(b, index) ==
    /\ segments' = insertBlock(segments, TargetIndex(index), blocks[b].def.id,
                               DefaultValues(blocks[b].def), nextUid)
    /\ nextUid' = UidsAfter(nextUid, segments')
    /\ nextUid' <= MaxUid + 1
    /\ hoveredDropIndex' = -1
    /\ lastOp' = Op("insert", uid(nextUid, 0), "-")
    /\ UNCHANGED <<blocks, blockVars, syncVars>>

HandleDropBlock ==
    \E index \in DropZones(segments), b \in 1..Len(blocks) :
        DropBlock(b, index)

\* handleDrop called with a definition id and any insertion index of the list.
DropAnyBlock ==
    \E index \in DropIndices(segments), b \in 1..Len(blocks) :
        DropBlock(b, index)

\* What a drop's dataTransfer can hold: getData gives '' (here -1, or the
\* empty id) for a type that was not set.
Payload(segId, blockId) == [seg |-> segId, block |-> blockId]

\* The payloads that name no segment of the list and no definition of the
\* lookup: nothing at all (a file, a text selection), the id of a definition
\* that is not there, or a segment id the list does not hold, alone or next
\* to a definition id.
OtherPayloads(segs, bs, next0) ==
    {Payload(-1, <<>>), Payload(-1, UnknownBlockId)}
        \cup {Payload(id, b) : id \in (0..next0) \ SegIds(segs),
                                b \in {<<>>} \cup {bs[i].def.id : i \in 1..Len(bs)}}

\* handleDrop without `if (!blk) return` (line 411): a block segment is
\* inserted for any definition id.
handleDropAnyBlock(prev, payload, targetIndex, bs, next0) ==
    IF payload.seg # -1 THEN moveSegment(prev, payload.seg, targetIndex)
    ELSE IF payload.block = <<>> THEN prev
    ELSE insertBlock(prev, targetIndex, payload.block, EmptyMap, next0)

\* The segments after handleDrop (lines 404-425), for any payload.
handleDrop(prev, payload, targetIndex, bs, next0) ==
    IF payload.seg # -1 THEN moveSegment(prev, payload.seg, targetIndex)
    ELSE IF payload.block = <<>> THEN prev
    ELSE IF FindBlock(bs, payload.block) = 0 THEN prev
    ELSE insertBlock(prev, targetIndex, payload.block,
                     DefaultValues(bs[FindBlock(bs, payload.block)].def), next0)

\* handleDrop with such a payload on the zone with the given index: the
\* hovered slot is reset on the segment branch (line 407) and after an
\* insertion (line 426) only.
DropOther(payload, index) ==
    /\ segments' = handleDrop(segments, payload, TargetIndex(index), blocks, nextUid)
    /\ nextUid' = UidsAfter(nextUid, segments')
    /\ hoveredDropIndex' = IF payload.seg # -1 THEN -1 ELSE hoveredDropIndex
    /\ lastOp' = Op("other", payload.seg, IF payload.block = <<>> THEN "-" ELSE "block")
    /\ UNCHANGED <<blocks, blockVars, syncVars>>

HandleDropOther ==
    \E index \in DropZones(segments), payload \in OtherPayloads(segments, blocks, nextUid) :
        DropOther(payload, index)

\* removeSeg(id), as the Remove button calls it (line 516).
Remove(id) ==
    /\ segments' = removeSeg(segments, id, nextUid)
    /\ nextUid' = UidsAfter(nextUid, segments')
    /\ nextUid' <= MaxUid + 1
    /\ lastOp' = Op("remove", id, "-")
    /\ UNCHANGED <<hoveredDropIndex, blocks, blockVars, syncVars>>

RemoveSeg == \E id \in BlockSegIds(segments) : Remove(id)

\* removeSeg called with any segment id of the list.
RemoveAnySeg == \E id \in SegIds(segments) : Remove(id)

\* updateTextSeg (lines 366-368).
UpdateTextSeg ==
    \E i \in 1..Len(segments), value \in TextInputs :
        /\ segments[i].type = "text"
        /\ TotalText(segments) - Len(segments[i].value) + Len(value) <= MaxText
        /\ segments' = [j \in 1..Len(segments) |->
                            IF segments[j].id = segments[i].id
                            THEN [segments[j] EXCEPT !.value = value]
                            ELSE segments[j]]
        /\ lastOp' = Op("text", -1, "-")
        /\ UNCHANGED <<hoveredDropIndex, blocks, blockVars, nextUid, syncVars>>

Init ==
    /\ InitSeg
    /\ InitEditor
    /\ mounted = FALSE
    /\ InitBlocks(ComposerBlocks)

NextSeg ==
    \/ HandleDropMove
    \/ HandleDropBlock
    \/ RemoveSeg
    \/ UpdateTextSeg

\* The segmented composer: drops, removals and text edits from [Text].
SpecSeg == Init /\ [][NextSeg]_vars

NextInsRem ==
    \/ HandleDragEnter
    \/ HandleDragLeave
    \/ DropAnyBlock
    \/ HandleDropOther
    \/ RemoveSeg

\* The segmented composer under block insertions and removals alone, with the
\* drag events that choose the slot.
SpecInsRem == Init /\ [][NextInsRem]_vars

\* Every segment list of 1..MaxList segments with distinct ids: Text segments
\* with a value of TextValues, Block segments of the first definition.
TextValues == {<<>>, <<"a">>, <<"b">>}
SegChoices(id) ==
    {TextSeg(id, v) : v \in TextValues}
        \cup {BlockSeg(id, DefSpeed.id, DefaultValues(DefSpeed))}
AnyLists ==
    UNION {{s \in [1..n -> UNION {SegChoices(id) : id \in 0..(n - 1)}] :
                \A i \in 1..n : s[i].id = i - 1} : n \in 1..MaxList}

InitFn ==
    /\ segments \in AnyLists
    /\ nextUid = Len(segments)
    /\ hoveredDropIndex = -1
    /\ lastOp = NoOp
    /\ InitEditor
    /\ mounted = FALSE
    /\ InitBlocks(ComposerBlocks)

NextFn ==
    \/ MoveAnySeg
    \/ RemoveAnySeg

\* moveSegment and removeSeg as functions: applied to any segment list, with
\* any segment id of it.
SpecFn == InitFn /\ [][NextFn]_vars

\* Every segment list of 1..MaxNormLen segments with distinct ids, Text
\* segments next to each other included.
NormLists ==
    UNION {{s \in [1..n -> UNION {{TextSeg(id, <<>>), TextSeg(id, <<"a">>),
                                   BlockSeg(id, DefSpeed.id, DefaultValues(DefSpeed))} :
                                      id \in 0..(n - 1)}] :
                \A i \in 1..n : s[i].id = i - 1} : n \in 1..MaxNormLen}

InitNorm ==
    /\ segments \in NormLists
    /\ nextUid = Len(segments)
    /\ hoveredDropIndex = -1
    /\ lastOp = NoOp
    /\ InitEditor
    /\ mounted = FALSE
    /\ InitBlocks(ComposerBlocks)

NextNorm == RemoveAnySeg

\* removeSeg applied, again and again, to any segment list.
SpecNorm == InitNorm /\ [][NextNorm]_vars

\* Every segment list of 1..MaxMoveLen segments with distinct ids.
MoveLists == {s \in NormLists : Len(s) <= MaxMoveLen}

\* An id no segment of the list has.
AbsentSegId(segs) == Len(segs)

InitMove ==
    /\ segments \in MoveLists
    /\ nextUid = Len(segments) + 1
    /\ hoveredDropIndex = -1
    /\ lastOp = NoOp
    /\ InitEditor
    /\ mounted = FALSE
    /\ InitBlocks(ComposerBlocks)

\* moveSegment called with a segment id that is not in the list.
MoveAbsentSeg ==
    \E index \in DropIndices(segments) : DropMove(AbsentSegId(segments), index)

NextMove ==
    \/ MoveAnySeg
    \/ MoveAbsentSeg

\* moveSegment applied to any segment list, with any id and index.
SpecMove == InitMove /\ [][NextMove]_vars

NextOps ==
    \/ DropAnyBlock
    \/ MoveAnySeg
    \/ RemoveAnySeg
    \/ UpdateTextSeg

\* The segment operations as functions, from [Text]: block insertion,
\* moveSegment and removeSeg with any segment id, text updates.
SpecOps == Init /\ [][NextOps]_vars

\* ------------------------------------------------------ the editor's actions

segVars == <<segments, hoveredDropIndex, nextUid>>

\* The deferred callbacks: syncEditorFromText as the render that scheduled it
\* defined it, with that render's prompt (line 285), and the reset of
\* skipInputRef (line 197).
SyncTimer(text) == [kind |-> "sync", text |-> text]
ClearSkipTimer == [kind |-> "clearSkip", text |-> <<>>]

\* A user gesture on the editor is a task of its own: it finds no effect and
\* no timer of an earlier task pending, and no dialog over the page.
UserCanAct == mounted /\ ~effectPending /\ timers = <<>> /\ editingToken = NoEditing

\* A drop is a task of its own as well; the handler runs whether the editor
\* element is there or not (line 267).
DropCanFire == ~effectPending /\ timers = <<>> /\ editingToken = NoEditing

\* What is typed or pasted in one input event.
EditorTexts == {<<"a">>, BareToken(DefSpeed.id)}

CountElements(nodes) == Cardinality({i \in 1..Len(nodes) : nodes[i].k = "element"})
WithinBounds(text) == Len(Matches(text)) <= MaxTokens /\ PlainLen(text) <= MaxPlain

\* setPrompt(next): the state changes, and the effect of line 240 is due,
\* when next differs from prompt; nothing happens when it does not.
SetPrompt(next) ==
    /\ prompt' = next
    /\ effectPending' = (effectPending \/ next # prompt)
Changed(next) == IF next # prompt THEN "changed" ELSE "same"

\* syncEditorFromText (lines 236-239) of a render whose prompt was text.
syncEditorFromText(text) ==
    IF ~mounted THEN UNCHANGED view ELSE view' = ParseHTML(renderPromptHTML(text, blocks))

\* The browser changes the editor's contents to nodes and fires the input
\* event; onEditorInput (lines 288-293) handles it.
OnEditorInput(nodes, op) ==
    /\ UserCanAct
    /\ view' = nodes
    /\ IF skipInputRef
       THEN UNCHANGED <<prompt, suppressSyncRef, effectPending>> /\ lastOp' = Op(op, -1, "same")
       ELSE LET text == textFromEditor(mounted, nodes, prompt)
            IN  /\ WithinBounds(text)
                /\ suppressSyncRef' = TRUE
                /\ SetPrompt(text)
                /\ lastOp' = Op(op, -1, Changed(text))
    /\ UNCHANGED <<editingToken, mounted, skipInputRef, timers, blocks, blockVars, segVars>>

\* Typing or pasting at the end of the editor.
InsertText == \E s \in EditorTexts : OnEditorInput(InsertAtEnd(view, s), "input")

\* Backspace at the end of the editor.
DeleteBack == view # <<>> /\ OnEditorInput(DeleteAtEnd(view), "input")

\* Enter at the end of the editor: the browser adds an element without text.
BreakLine ==
    /\ CountElements(view) < MaxElements
    /\ OnEditorInput(Append(view, ElementNode), "break")

\* The string insertTokenAtCaret publishes (lines 267, 281-283) for token,
\* with the selection at caret.
InsertedText(token, caret) ==
    IF ~mounted THEN prompt \o token
    ELSE ReplaceFirst(textFromEditor(mounted, InsertMarker(view, caret), prompt), Marker, token)

\* onEditorDrop (lines 188-199) with the id of definition blocks[b] in the
\* payload and the selection at caret, insertTokenAtCaret (lines 266-286)
\* included.
OnEditorDrop(b, caret) ==
    LET token == BareToken(blocks[b].def.id)
        nodes == InsertMarker(view, caret)
        next == InsertedText(token, caret)
    IN  /\ DropCanFire
        /\ skipInputRef' = TRUE
        /\ suppressSyncRef' = TRUE
        /\ view' = IF mounted THEN nodes ELSE view
        /\ SetPrompt(next)
        /\ timers' = timers \o (IF mounted THEN <<SyncTimer(prompt)>> ELSE <<>>)
                            \o <<ClearSkipTimer>>
        /\ lastOp' = Op("drop", b, Changed(next))
        /\ UNCHANGED <<editingToken, mounted, blocks, blockVars, segVars>>

EditorDrop ==
    \E b \in 1..Len(blocks), caret \in Carets(view) :
        /\ mounted
        /\ WithinBounds(InsertedText(BareToken(blocks[b].def.id), caret))
        /\ OnEditorDrop(b, caret)

\* The effect without the test of suppressSyncRef: every render that changed
\* prompt re-renders the editor.
RunEffectUnsuppressed ==
    /\ effectPending
    /\ effectPending' = FALSE
    /\ syncEditorFromText(prompt)
    /\ suppressSyncRef' = FALSE
    /\ UNCHANGED <<prompt, editingToken, mounted, skipInputRef, timers, lastOp, blocks, blockVars, segVars>>

\* The effect of lines 240-243, run after a render that changed prompt.
RunEffect ==
    /\ effectPending
    /\ effectPending' = FALSE
    /\ IF suppressSyncRef
       THEN suppressSyncRef' = FALSE /\ UNCHANGED view
       ELSE syncEditorFromText(prompt) /\ UNCHANGED suppressSyncRef
    /\ UNCHANGED <<prompt, editingToken, mounted, skipInputRef, timers, lastOp, blocks, blockVars, segVars>>

\* The oldest deferred callback runs.
RunTimer ==
    /\ timers # <<>>
    /\ timers' = Tail(timers)
    /\ IF Head(timers).kind = "sync"
       THEN syncEditorFromText(Head(timers).text) /\ UNCHANGED skipInputRef
       ELSE skipInputRef' = FALSE /\ UNCHANGED view
    /\ UNCHANGED <<prompt, editingToken, mounted, suppressSyncRef, effectPending, lastOp,
                   blocks, blockVars, segVars>>

\* A click on token widget view[j]: openTokenEditorFromEl (lines 295-302).
\* Nothing opens when the index finds no token or the id no definition.
OpenTokenEditor(j) ==
    LET info == findTokenByIndex(prompt, view[j].idx)
    IN  /\ UserCanAct
        /\ view[j].k = "token"
        /\ info # NoToken
        /\ FindBlock(blocks, info.blockId) # 0
        /\ editingToken' = [start |-> info.start, end |-> info.end,
                            blockId |-> info.blockId, values |-> info.params]
        /\ lastOp' = Op("open", -1, "same")
        /\ UNCHANGED <<prompt, mounted, view, suppressSyncRef, skipInputRef, effectPending,
                       timers, blocks, blockVars, segVars>>

OnEditorClick == \E j \in 1..Len(view) : OpenTokenEditor(j)

\* What the dialog's inputs are set to (line 684): Number(e.target.value)
\* for a number parameter, e.target.value for any other.
ValueInputs(type) ==
    IF type = "number" THEN {NumV(3)} ELSE {StrV(<<"y">>), StrV(<<"a"," ","b">>)}

\* onChange of the dialog's input for parameter p (line 684).
SetTokenValue(p, v) ==
    /\ editingToken # NoEditing
    /\ editingToken' =
           [editingToken EXCEPT !.values =
                [k \in (DOMAIN editingToken.values) \cup {p.key} |->
                    IF k = p.key THEN v ELSE editingToken.values[k]]]
    /\ lastOp' = Op("value", -1, "same")
    /\ UNCHANGED <<prompt, mounted, view, suppressSyncRef, skipInputRef, effectPending,
                   timers, blocks, blockVars, segVars>>

EditTokenValue ==
    /\ editingToken # NoEditing
    /\ FindBlock(blocks, editingToken.blockId) # 0
    /\ LET def == blocks[FindBlock(blocks, editingToken.blockId)].def
       IN  \E i \in 1..Len(def.params) : \E v \in ValueInputs(def.params[i].type) :
               SetTokenValue(def.params[i], v)

\* saveEditingToken (lines 318-325).
SaveEditingToken ==
    /\ editingToken # NoEditing
    /\ FindBlock(blocks, editingToken.blockId) # 0
    /\ LET def == blocks[FindBlock(blocks, editingToken.blockId)].def
           next == Slice0(prompt, 0, editingToken.start)
                       \o TokenText(def, editingToken.values)
                       \o Slice0(prompt, editingToken.end, Len(prompt))
       IN  /\ SetPrompt(next)
           /\ lastOp' = Op("save", -1, Changed(next))
    /\ editingToken' = NoEditing
    /\ UNCHANGED <<mounted, view, suppressSyncRef, skipInputRef, timers, blocks, blockVars, segVars>>

\* The dialog's Close button (line 674).
CloseTokenEditor ==
    /\ editingToken # NoEditing
    /\ editingToken' = NoEditing
    /\ lastOp' = Op("close", -1, "same")
    /\ UNCHANGED <<prompt, mounted, view, suppressSyncRef, skipInputRef, effectPending,
                   timers, blocks, blockVars, segVars>>

InitSync ==
    /\ InitSeg
    /\ InitEditor
    /\ mounted = TRUE
    /\ InitBlocks(StoredBlocks)

NextSync ==
    \/ InsertText
    \/ DeleteBack
    \/ BreakLine
    \/ EditorDrop
    \/ RunEffect
    \/ RunTimer
    \/ OnEditorClick
    \/ EditTokenValue
    \/ SaveEditingToken
    \/ CloseTokenEditor

\* The contenteditable editor: input, drops, the token dialog, the effect and
\* the deferred callbacks.
SpecSync == InitSync /\ [][NextSync]_vars

\* The editor showing nothing, a token, or text and a token, settled.
InitInput ==
    /\ InitSeg
    /\ InitBlocks(StoredBlocks)
    /\ mounted = TRUE
    /\ prompt \in { <<>>, BareToken(DefSpeed.id), <<"a">> \o BareToken(DefTitle.id) }
    /\ editingToken = NoEditing
    /\ view = ParseHTML(renderPromptHTML(prompt, blocks))
    /\ suppressSyncRef = FALSE
    /\ skipInputRef = FALSE
    /\ effectPending = FALSE
    /\ timers = <<>>

NextInput ==
    \/ InsertText
    \/ DeleteBack
    \/ BreakLine
    \/ RunEffect
    \/ OnEditorClick
    \/ EditTokenValue
    \/ SaveEditingToken
    \/ CloseTokenEditor

\* The editor under input events and the token dialog, without drops:
\* typing, pasting a token's text, Backspace and Enter, and the effect each
\* of them leaves due.
SpecInput == InitInput /\ [][NextInput]_vars

\* React runs the effect of a committed render (line 240): it is not put off
\* for ever.
\* RunEffect is the only action that turns effectPending off, so this is weak
\* fairness of RunEffect.
EffectRuns == effectPending /\ effectPending' = FALSE
SpecInputFair == SpecInput /\ WF_effectPending(EffectRuns)

\* The values a token parameter can hold: JSON scalars.
ScalarValues ==
    { StrV(<<>>), StrV(<<"y">>), StrV(<<"a"," ","b">>), StrV(<<"\"","\\">>), StrV(<<"1">>),
      NumV(0), NumV(12), NumV(-3), BoolV(TRUE), BoolV(FALSE), NullV }
ParamKeys(def) == {def.params[i].key : i \in 1..Len(def.params)}

\* The token dialog open on the only token of the prompt, a freshly dropped
\* one, with any scalar set for each declared parameter.
InitTok ==
    /\ InitSeg
    /\ InitBlocks(StoredBlocks)
    /\ mounted = TRUE
    /\ \E b \in 1..Len(blocks) :
          /\ prompt = BareToken(blocks[b].def.id)
          /\ editingToken \in
                 { [start |-> 0, end |-> Len(prompt), blockId |-> blocks[b].def.id, values |-> vs] :
                       vs \in [ParamKeys(blocks[b].def) -> ScalarValues] }
    /\ view = ParseHTML(renderPromptHTML(prompt, blocks))
    /\ suppressSyncRef = FALSE
    /\ skipInputRef = FALSE
    /\ effectPending = FALSE
    /\ timers = <<>>

NextTok ==
    \/ SaveEditingToken
    \/ RunEffect

\* Saving a token from the dialog, for every assignment of scalars to the
\* parameters of every definition.
SpecTok == InitTok /\ [][NextTok]_vars

\* The pieces prompts are made of: plain and markup characters, a character
\* reference spelled out, tokens of a defined and of an undefined block, and
\* the parts a token is written with.
Pieces ==
    { <<"a">>, <<"&">>, <<"<">>, <<"&","l","t",";">>,
      BareToken(DefSpeed.id), BareToken(UnknownBlockId),
      TokenOpen, TokenClose, <<"b","2"," ","t","=","<","&",">">> }
RECURSIVE Concat(_)
Concat(ps) == IF ps = <<>> THEN <<>> ELSE Head(ps) \o Concat(Tail(ps))
PromptStrings == {Concat(ps) : ps \in UNION {[1..n -> Pieces] : n \in 1..MaxPieces}}

\* The editor mounted with any prompt, before the effect of its render.
InitView ==
    /\ InitSeg
    /\ InitBlocks(StoredBlocks)
    /\ mounted = TRUE
    /\ prompt \in PromptStrings
    /\ editingToken = NoEditing
    /\ view = <<>>
    /\ suppressSyncRef = FALSE
    /\ skipInputRef = FALSE
    /\ effectPending = TRUE
    /\ timers = <<>>

NextView == RunEffect

\* Rendering any prompt into the editor.
SpecView == InitView /\ [][NextView]_vars

\* The prompts tokens are inserted into: empty, plain text, tokens with and
\* without text around them, and text that spells the marker.
InsertPrompts ==
    { <<>>, <<"a","b">>, BareToken(DefSpeed.id),
      <<"a">> \o BareToken(UnknownBlockId) \o <<"b">>,
      Marker, <<"a">> \o Marker \o <<"<">> }

\* The editor, there or not, showing any of these prompts, nothing pending.
InitIns ==
    /\ InitSeg
    /\ InitBlocks(StoredBlocks)
    /\ mounted \in BOOLEAN
    /\ prompt \in InsertPrompts
    /\ editingToken = NoEditing
    /\ view = (IF mounted THEN ParseHTML(renderPromptHTML(prompt, blocks)) ELSE <<>>)
    /\ suppressSyncRef = FALSE
    /\ skipInputRef = FALSE
    /\ effectPending = FALSE
    /\ timers = <<>>

\* A drop with the selection anywhere.
EditorDropAny ==
    \E b \in 1..Len(blocks), caret \in Carets(view) :
        /\ Len(prompt) <= MaxDropLen
        /\ OnEditorDrop(b, caret)

NextIns ==
    \/ EditorDropAny
    \/ RunEffect
    \/ RunTimer

\* Token insertion into any of the prompts, at any selection.
SpecIns == InitIns /\ [][NextIns]_vars

\* onEditorDrop (lines 188-199) when a call inside insertTokenAtCaret raises:
\* range.insertNode(marker) (line 279) raises a DOMException when the range
\* does not take a text node.  Both flags were set at lines 193-194; nothing
\* after the call runs, so line 197 schedules no reset, and no state is set.
OnEditorDropThrows(b) ==
    /\ DropCanFire
    /\ mounted
    /\ skipInputRef' = TRUE
    /\ suppressSyncRef' = TRUE
    /\ lastOp' = Op("throw", b, "same")
    /\ UNCHANGED <<prompt, view, effectPending, timers, editingToken, mounted, blocks,
                   blockVars, segVars>>

EditorDropThrows == \E b \in 1..Len(blocks) : OnEditorDropThrows(b)

\* Typing or pasting at the end of the editor, the contents kept in bounds
\* also when the handler returns at line 289.
InsertTextInBounds ==
    \E s \in EditorTexts :
        /\ Len(ViewText(InsertAtEnd(view, s))) <= MaxDropLen
        /\ Len(Matches(ViewText(InsertAtEnd(view, s)))) <= MaxTokens
        /\ OnEditorInput(InsertAtEnd(view, s), "input")

NextExc ==
    \/ InsertTextInBounds
    \/ DeleteBack
    \/ EditorDropThrows
    \/ RunEffect

\* Typing into the editor, with drops whose insertion raises.
SpecExc == InitSync /\ [][NextExc]_vars

\* ---------------------------------------------------- the block definitions

editorRest == <<prompt, editingToken, mounted, view, suppressSyncRef, skipInputRef, timers>>

\* No dialog lies over the page.
NoDialog == editingBlock = NoEditingBlock /\ editingToken = NoEditing

\* JSON.parse of JSON.stringify(next): what blocks_v1 holds of a list.
Persisted(bs) ==
    [i \in 1..Len(bs) |->
        [bs[i] EXCEPT !.def.params =
            [j \in 1..Len(bs[i].def.params) |->
                [bs[i].def.params[j] EXCEPT !.default = Transported(@)]]]]

\* setBlocks(next) and localStorage.setItem('blocks_v1', ...); the effect of
\* line 240 is due when blocks.length changes.
SetBlocks(next) ==
    /\ blocks' = next
    /\ stored' = Persisted(next)
    /\ effectPending' = (effectPending \/ Len(next) # Len(blocks))

\* A drop of a tile of the Blocks panel; the panel is covered while a block
\* is being created (line 482).
TileDrop == ~creating.active /\ NoDialog /\ HandleDropBlock

\* The Delete button of tile b (line 476).
DeleteBlock ==
    \E b \in 1..Len(blocks) :
        /\ ~creating.active /\ NoDialog /\ ~effectPending
        /\ SetBlocks(SelectSeq(blocks, LAMBDA x : x.def.id # blocks[b].def.id))
        /\ lastOp' = Op("delete", -1, "-")
        /\ UNCHANGED <<segVars, editorRest, editingBlock, creating, genVars>>

\* The Edit button of a block chip (line 515).
EditSegment ==
    \E i \in 1..Len(segments) :
        /\ NoDialog
        /\ segments[i].type = "block"
        /\ editingBlock' = [segmentId |-> segments[i].id, blockId |-> segments[i].blockId,
                            values |-> segments[i].values]
        /\ lastOp' = Op("edit", segments[i].id, "-")
        /\ UNCHANGED <<segVars, blocks, syncVars, creating, stored, genVars>>

\* What the custom parameter form hands over (line 825).
CustomParams == { [key |-> <<"c">>, type |-> "text", default |-> StrV(<<"d">>)] }

\* blocks with param appended to the definition at 1-based position i
\* (lines 654-655).
AppendParam(bs, i, param) ==
    [bs EXCEPT ![i].def.params = Append(@, param)]

\* onAdd of the custom parameter form in the block dialog (lines 651-659).
AddBlockParam(param) ==
    /\ editingBlock # NoEditingBlock
    /\ FindBlock(blocks, editingBlock.blockId) # 0
    /\ Len(blocks[FindBlock(blocks, editingBlock.blockId)].def.params) < MaxParams
    /\ SetBlocks(AppendParam(blocks, FindBlock(blocks, editingBlock.blockId), param))
    /\ editingBlock' =
           [editingBlock EXCEPT !.values =
                [k \in (DOMAIN editingBlock.values) \cup {param.key} |->
                    IF k = param.key THEN param.default ELSE editingBlock.values[k]]]
    /\ lastOp' = Op("param", -1, "-")
    /\ UNCHANGED <<segVars, editorRest, creating, genVars>>

AddCustomParam == \E param \in CustomParams : AddBlockParam(param)

\* saveEditingBlock (lines 428-432).
SaveEditingBlock ==
    /\ editingBlock # NoEditingBlock
    /\ segments' = [i \in 1..Len(segments) |->
                        IF segments[i].id = editingBlock.segmentId
                        THEN [segments[i] EXCEPT !.values = editingBlock.values]
                        ELSE segments[i]]
    /\ editingBlock' = NoEditingBlock
    /\ lastOp' = Op("saveBlock", -1, "-")
    /\ UNCHANGED <<hoveredDropIndex, nextUid, blocks, syncVars, creating, stored, genVars>>

\* The block dialog's Close button (line 606).
CloseEditingBlock ==
    /\ editingBlock # NoEditingBlock
    /\ editingBlock' = NoEditingBlock
    /\ lastOp' = Op("closeBlock", -1, "-")
    /\ UNCHANGED <<segVars, blocks, syncVars, creating, stored, genVars>>

\* createBlock up to its await (lines 327-331): the call keeps the blocks of
\* the render in which the button was clicked.
CreateBlockStart ==
    /\ ~creating.active /\ NoDialog
    /\ Len(blocks) < MaxBlocks
    /\ creating' = [active |-> TRUE, blocks |-> blocks]
    /\ lastOp' = Op("create", -1, "-")
    /\ UNCHANGED <<segVars, blocks, syncVars, editingBlock, stored, genVars>>

\* The definition made of the service's answer (lines 335-343); its id is
\* fresh (line 341).
NewBlock(k) ==
    [def |-> [id |-> <<"n">> \o DigitsOf(k), name |-> <<"N","e","w">>,
              params |-> << [key |-> <<"k">>, type |-> "text", default |-> StrV(<<>>)] >>]]

\* createBlock after its await (lines 333-344).
CreateBlockDone ==
    /\ creating.active
    /\ nextUid' = nextUid + 1
    /\ nextUid' <= MaxUid + 1
    /\ SetBlocks(<<NewBlock(nextUid)>> \o creating.blocks)
    /\ creating' = NoRequest
    /\ lastOp' = Op("created", -1, "-")
    /\ UNCHANGED <<segments, hoveredDropIndex, editorRest, editingBlock, genVars>>

\* createBlock when the request fails (lines 345-346).
CreateBlockFail ==
    /\ creating.active
    /\ creating' = NoRequest
    /\ lastOp' = Op("failed", -1, "-")
    /\ UNCHANGED <<segVars, blocks, syncVars, editingBlock, stored, genVars>>

NextBlocks ==
    \/ TileDrop
    \/ DeleteBlock
    \/ EditSegment
    \/ AddCustomParam
    \/ SaveEditingBlock
    \/ CloseEditingBlock
    \/ CreateBlockStart
    \/ CreateBlockDone
    \/ CreateBlockFail
    \/ RunEffect

\* The Blocks panel and the block dialog of the segmented composer.
SpecBlocks == Init /\ [][NextBlocks]_vars

\* ------------------------------------------------------------ token decoding

\* The most key=value words of a token the dialog is opened on.
MaxWords == 2

\* The words a token's parameters are explored with: literals of each kind,
\* a value with a second "=", values that are no JSON literal, an empty
\* value, a word that starts with "=", a word without "=", and a key the
\* definition does not declare.
ParseWords ==
    { <<"n","=","0">>, <<"n","=","1","=","2">>, <<"n","=","n","u","l","l">>,
      <<"t","=","\"","y","\"">>, <<"t","=","x","\"">>, <<"t","=">>,
      <<"=","5">>, <<"n">>, <<"c","=","t","r","u","e">> }

RECURSIVE SpacedWords(_)
SpacedWords(ws) == IF ws = <<>> THEN <<>> ELSE <<" ">> \o Head(ws) \o SpacedWords(Tail(ws))

\* A prompt with one token of the second definition after some text.
ParsePrompts ==
    { <<"a", " ">> \o TokenOpen \o DefTitle.id \o SpacedWords(ws) \o TokenClose :
          ws \in UNION {[1..n -> ParseWords] : n \in 0..MaxWords} }

\* The editor showing any such prompt, settled.
InitParse ==
    /\ InitSeg
    /\ InitBlocks(StoredBlocks)
    /\ mounted = TRUE
    /\ prompt \in ParsePrompts
    /\ editingToken = NoEditing
    /\ view = ParseHTML(renderPromptHTML(prompt, blocks))
    /\ suppressSyncRef = FALSE
    /\ skipInputRef = FALSE
    /\ effectPending = FALSE
    /\ timers = <<>>

NextParse ==
    \/ OnEditorClick
    \/ EditTokenValue
    \/ SaveEditingToken
    \/ CloseTokenEditor
    \/ RunEffect

\* The token dialog: opened on a token of the prompt, edited, saved or closed.
SpecParse == InitParse /\ [][NextParse]_vars

\* The dialog is opened while the prompt has at most this many characters.
MaxSaveLen == 30

\* What is typed into the dialog's text inputs here: plain text, text with a
\* closing bracket, and nothing.
SaveTexts == {StrV(<<"y">>), StrV(<<"]">>), StrV(<<>>)}

\* onChange of a dialog input (line 684) with any of these texts.
EditTokenText ==
    /\ editingToken # NoEditing
    /\ FindBlock(blocks, editingToken.blockId) # 0
    /\ LET def == blocks[FindBlock(blocks, editingToken.blockId)].def
       IN  \E i \in 1..Len(def.params) :
               \E v \in (IF def.params[i].type = "number" THEN {NumV(3)} ELSE SaveTexts) :
                   SetTokenValue(def.params[i], v)

\* A click on a widget while the prompt is short.
OnShortEditorClick == Len(prompt) <= MaxSaveLen /\ OnEditorClick

\* The editor showing two tokens, with and without text, settled.
InitSave ==
    /\ InitSeg
    /\ InitBlocks(StoredBlocks)
    /\ mounted = TRUE
    /\ prompt \in { <<"a">> \o BareToken(DefTitle.id) \o <<"b">> \o BareToken(DefSpeed.id),
                     BareToken(DefSpeed.id) \o BareToken(DefTitle.id) }
    /\ editingToken = NoEditing
    /\ view = ParseHTML(renderPromptHTML(prompt, blocks))
    /\ suppressSyncRef = FALSE
    /\ skipInputRef = FALSE
    /\ effectPending = FALSE
    /\ timers = <<>>

NextSave ==
    \/ OnShortEditorClick
    \/ EditTokenText
    \/ SaveEditingToken
    \/ CloseTokenEditor
    \/ RunEffect

\* Tokens of a prompt with text and two tokens opened, edited and saved.
SpecSave == InitSave /\ [][NextSave]_vars

\* ------------------------------------------------- persisting the definitions

\* Number(def) (line 825) of the text of the form's default input: 0 of the
\* empty text, the number of a numeral, NaN of any other text.
Number(text) ==
    IF text = <<>> THEN NumV(0)
    ELSE IF IsJsonInt(text) THEN NumV(DecimalOf(text))
    ELSE NaN

\* What is typed into the form's default input.
DefaultTexts == {<<>>, <<"7">>, <<"x">>}

\* The parameter the form's Add button hands to onAdd (line 825).
FormParam(name, type, def) ==
    [key |-> name, type |-> type,
     default |-> IF type = "number" THEN Number(def) ELSE StrV(def)]

FormParams == {FormParam(<<"c">>, type, def) : type \in {"text", "number"}, def \in DefaultTexts}

\* The form of the block dialog with any of these inputs.
AddFormParam == \E param \in FormParams : AddBlockParam(param)

\* onAdd of the custom parameter form in the token dialog (lines 692-700).
AddTokenParam ==
    \E param \in FormParams :
        /\ editingToken # NoEditing
        /\ FindBlock(blocks, editingToken.blockId) # 0
        /\ Len(blocks[FindBlock(blocks, editingToken.blockId)].def.params) < MaxParams
        /\ SetBlocks(AppendParam(blocks, FindBlock(blocks, editingToken.blockId), param))
        /\ editingToken' =
               [editingToken EXCEPT !.values =
                    [k \in (DOMAIN editingToken.values) \cup {param.key} |->
                        IF k = param.key THEN param.default ELSE editingToken.values[k]]]
        /\ lastOp' = Op("tokenParam", -1, "-")
        /\ UNCHANGED <<segVars, prompt, mounted, view, suppressSyncRef, skipInputRef,
                       timers, editingBlock, creating, genVars>>

\* The page with one definition, a chip of it in the composer and a token of
\* it in the editor, settled.
InitPersist ==
    /\ InitSeg
    /\ InitBlocks(ComposerBlocks)
    /\ mounted = TRUE
    /\ prompt = BareToken(DefSpeed.id)
    /\ editingToken = NoEditing
    /\ view = ParseHTML(renderPromptHTML(prompt, blocks))
    /\ suppressSyncRef = FALSE
    /\ skipInputRef = FALSE
    /\ effectPending = FALSE
    /\ timers = <<>>

NextPersist ==
    \/ TileDrop
    \/ DeleteBlock
    \/ EditSegment
    \/ AddFormParam
    \/ CloseEditingBlock
    \/ OnShortEditorClick
    \/ AddTokenParam
    \/ CloseTokenEditor
    \/ CreateBlockStart
    \/ CreateBlockDone
    \/ CreateBlockFail
    \/ RunEffect

\* Every handler that writes the definitions, with the dialogs that lead to it.
SpecPersist == InitPersist /\ [][NextPersist]_vars

\* -------------------------------------------------------- context flattening

\* The most segments of a flattened composer and the most pieces of a
\* flattened prompt.
MaxUsed == 2

\* (p as any).explain (line 861): the empty string stands for a definition
\* without one; `defParam.explain || ...` treats both alike.
ExplainOf(p) == IF "explain" \in DOMAIN p THEN p.explain ELSE <<>>

\* The record pushed for one usage (lines 858-865, 763-769); label, project
\* and context are left out.
UsageOf(def, values) ==
    [id |-> def.id,
     name |-> def.name,
     def |-> [i \in 1..Len(def.params) |->
                 [key |-> def.params[i].key, type |-> def.params[i].type,
                  default |-> def.params[i].default,
                  explain |-> ExplainOf(def.params[i])]],
     params |-> [i \in 1..Len(def.params) |->
                 [key |-> def.params[i].key, default |-> def.params[i].default,
                  value |-> Get(values, def.params[i].key)]]]

\* extractBlocksFromSegments pushing to the front: the records come out in
\* reverse order.
extractBlocksFromSegmentsUnshift(segs, bs) ==
    LET kept == SelectSeq(segs, LAMBDA seg :
                    seg.type = "block" /\ FindBlock(bs, seg.blockId) # 0)
    IN  [i \in 1..Len(kept) |->
            UsageOf(bs[FindBlock(bs, kept[Len(kept) + 1 - i].blockId)].def,
                    kept[Len(kept) + 1 - i].values)]

\* extractBlocksFromSegments (lines 853-868): a record for every Block
\* segment that blocks.find resolves, pushed in the order of the loop.
extractBlocksFromSegments(segs, bs) ==
    LET kept == SelectSeq(segs, LAMBDA seg :
                    seg.type = "block" /\ FindBlock(bs, seg.blockId) # 0)
    IN  [i \in 1..Len(kept) |->
            UsageOf(bs[FindBlock(bs, kept[i].blockId)].def, kept[i].values)]

\* extractBlocksFromPrompt (lines 757-772): a record for every match whose
\* id blocks.find resolves, with the values of its key=value words.
extractBlocksFromPrompt(text, bs) ==
    LET kept == SelectSeq(Matches(text), LAMBDA m : FindBlock(bs, m.id) # 0)
    IN  [i \in 1..Len(kept) |->
            UsageOf(bs[FindBlock(bs, kept[i].id)].def, ParseParams(kept[i].rest))]

\* A usage record as the server reads it from the request body.
TransportedUsage(u) ==
    [id |-> u.id,
     name |-> u.name,
     def |-> [i \in 1..Len(u.def) |->
                 [u.def[i] EXCEPT !.default = Transported(u.def[i].default)]],
     params |-> [i \in 1..Len(u.params) |->
                 [key |-> u.params[i].key,
                  default |-> Transported(u.params[i].default),
                  value |-> Transported(u.params[i].value)]]]

\* The values of the Text segments, in order (line 156).
TextValuesOf(segs) ==
    LET texts == SelectSeq(segs, LAMBDA s : s.type = "text")
    IN  [i \in 1..Len(texts) |-> texts[i].value]

\* useState<number>(3) (line 129).
secondsPerBlock == 3

\* The request body of generate (lines 155-165) as the server parses it.
RequestBody(segs, bs) ==
    LET flat == extractBlocksFromSegments(segs, bs)
    IN  [sent |-> TRUE, received |-> FALSE, ctx |-> <<>>, json |-> TRUE, guidanceImage |-> 0,
         prompt |-> Join(TextValuesOf(segs), <<"\n", "\n">>),
         blocks |-> [i \in 1..Len(flat) |-> TransportedUsage(flat[i])],
         durationHintSec |->
             Max(1, (IF Len(flat) = 0 THEN 1 ELSE Len(flat)) * secondsPerBlock)]

\* The replacement text of String.prototype.replace with a string pattern:
\* "$$" stands for "$" and "$&" for the matched text; the patterns for the
\* text before and after the match need characters no value here contains.
RECURSIVE GetSubstitution(_, _)
GetSubstitution(matched, r) ==
    IF r = <<>> THEN <<>>
    ELSE IF Len(r) >= 2 /\ r[1] = "$" /\ r[2] = "$"
         THEN <<"$">> \o GetSubstitution(matched, SubSeq(r, 3, Len(r)))
    ELSE IF Len(r) >= 2 /\ r[1] = "$" /\ r[2] = "&"
         THEN matched \o GetSubstitution(matched, SubSeq(r, 3, Len(r)))
    ELSE <<Head(r)>> \o GetSubstitution(matched, Tail(r))

\* s.replace(pat, r) with a string pattern and a string replacement: the
\* first occurrence is replaced by the expansion of r.
Replace(s, pat, r) ==
    LET i == IndexOf(s, pat)
    IN  IF i = -1 THEN s
        ELSE Slice0(s, 0, i) \o GetSubstitution(pat, r) \o Slice0(s, i + Len(pat), Len(s))

Placeholder == <<"{", "v", "a", "l", "u", "e", "}">>

\* x.value ?? x.default ?? null (transpile.ts line 471).
ParamValue(x) == Coalesce(Coalesce(x.value, x.default), NullV)

\* `${x.key}=${JSON.stringify(...)}` joined with ', ' (line 471).
ParametersLine(b) ==
    Join([i \in 1..Len(b.params) |->
              b.params[i].key \o <<"=">> \o JsonStringify(ParamValue(b.params[i]))],
         <<",", " ">>)

\* (b.params || []).find(pp => pp.key === defParam.key) (line 476): the
\* 1-based position of the first record with the key, or 0.
FindParam(b, key) ==
    LET S == {i \in 1..Len(b.params) : b.params[i].key = key}
    IN  IF S = {} THEN 0 ELSE CHOOSE i \in S : \A j \in S : i <= j

\* v of line 477.
ExplainValue(b, defParam) ==
    LET i == FindParam(b, defParam.key)
    IN  IF i = 0 THEN defParam.default
        ELSE Coalesce(IF b.params[i].value.t \in {"null", "undef"}
                      THEN b.params[i].default ELSE b.params[i].value,
                      defParam.default)

\* tpl of line 478.
TemplateOf(defParam) ==
    IF defParam.explain # <<>> THEN defParam.explain
    ELSE <<"s", "e", "t", " ">> \o defParam.key \o <<" ", "t", "o", " ">> \o Placeholder

\* The sentences of `explains` before they are joined (lines 475-480).
explains(b) ==
    [j \in 1..Len(b.def) |->
        Replace(TemplateOf(b.def[j]), Placeholder, JsonStringify(ExplainValue(b, b.def[j])))]

\* What blocksCtx (lines 470-486) holds of each block: its Parameters line
\* and the sentences of its Effects.
blocksCtx(blocksIn) ==
    [i \in 1..Len(blocksIn) |->
        [parameters |-> ParametersLine(blocksIn[i]), effects |-> explains(blocksIn[i])]]

\* Custom parameters as the form adds them (line 825): twice the same name
\* with two defaults.
CustomC == [key |-> <<"c">>, type |-> "text", default |-> StrV(<<"d">>)]
CustomC2 == [key |-> <<"c">>, type |-> "text", default |-> StrV(<<"e">>)]

\* Definitions as createBlock stores them (lines 335-343), with explain
\* templates.
SpeedTemplate ==
    <<"s","e","t"," ","t","h","e"," ","a","n","i","m","a","t","i","o","n"," ",
      "s","p","e","e","d"," ","t","o"," ">> \o Placeholder
FxSpin(custom) ==
    [id |-> <<"b","1">>, name |-> <<"S","p","i","n">>,
     params |-> << [key |-> <<"s">>, type |-> "number", default |-> NumV(1),
                    explain |-> SpeedTemplate] >> \o custom]
FxTitle ==
    [id |-> <<"b","2">>, name |-> <<"T","i","t","l","e">>,
     params |-> << [key |-> <<"t">>, type |-> "text", default |-> StrV(<<"x">>),
                    explain |-> <<"s","a","y"," ">> \o Placeholder \o <<" ","x">>],
                   [key |-> <<"n">>, type |-> "number", default |-> NumV(2)] >>]

\* The definition lookups flattening is explored with: b1 with none, one and
\* two custom parameters appended, and a lookup without b1.
Lookups ==
    { << [def |-> FxSpin(<<>>)], [def |-> FxTitle] >>,
      << [def |-> FxSpin(<<CustomC>>)], [def |-> FxTitle] >>,
      << [def |-> FxSpin(<<CustomC, CustomC2>>)], [def |-> FxTitle] >>,
      << [def |-> FxTitle] >> }

\* A function over the given keys.
ValuesOf(s, c) ==
    [k \in {<<"s">>} \cup (IF c = Undef THEN {} ELSE {<<"c">>}) |->
        IF k = <<"s">> THEN s ELSE c]

\* The segments flattening is explored with: Text, b1 chips with the values
\* the slider and the text input can give them (c absent when the chip was
\* not saved after the parameter was added), b2 chips, and a chip whose
\* definition is gone.
GenChoices(id) ==
    {TextSeg(id, v) : v \in {<<"a">>, <<"b">>}}
        \cup {BlockSeg(id, <<"b","1">>, ValuesOf(s, c)) :
                 s \in {NumV(1), NumV(2)},
                 c \in {Undef, StrV(<<"d">>), StrV(<<"$","$">>)}}
        \cup {BlockSeg(id, <<"b","2">>, vs) :
                 vs \in {DefaultValues(FxTitle),
                         [k \in {<<"t">>, <<"n">>} |->
                             IF k = <<"t">> THEN StrV(<<>>) ELSE NumV(0)],
                         [k \in {<<"t">>, <<"n">>} |->
                             IF k = <<"t">> THEN StrV(<<"$","$">>) ELSE NumV(2)]}}
        \cup {BlockSeg(id, UnknownBlockId, EmptyMap)}
GenLists ==
    UNION {{s \in [1..n -> UNION {GenChoices(id) : id \in 0..(n - 1)}] :
                \A i \in 1..n : s[i].id = i - 1} : n \in 1..MaxUsed}

\* The prompts extractBlocksFromPrompt is explored with.
GenPieces ==
    { <<"a", " ">>,
      BareToken(<<"b","1">>),
      TokenOpen \o <<"b","1"," ","s","=","2">> \o TokenClose,
      TokenOpen \o <<"b","2"," ","n","=","0"," ","t","=","\"","\"">> \o TokenClose,
      BareToken(UnknownBlockId) }
GenPrompts == {Concat(ps) : ps \in UNION {[1..n -> GenPieces] : n \in 1..MaxUsed}}

\* generate up to the fetch (lines 148-165), not in mock mode.
Generate ==
    /\ NoDialog
    /\ used' = extractBlocksFromSegments(segments, blocks)
    /\ posted' = RequestBody(segments, blocks)
    /\ lastOp' = Op("generate", -1, "-")
    /\ UNCHANGED <<segVars, blocks, syncVars, editingBlock, creating, stored, server, uiVars>>

\* extractBlocksFromPrompt applied to the prompt.
FlattenPrompt ==
    /\ used' = extractBlocksFromPrompt(prompt, blocks)
    /\ lastOp' = Op("flatten", -1, "-")
    /\ UNCHANGED <<segVars, blocks, syncVars, editingBlock, creating, stored, posted, server, uiVars>>

\* The paths and fields of a Remotion project (README.md lines 36-39).
ProjectPaths == {"src/index.ts", "src/Root.tsx", "src/MyComp.tsx"}
ProjectFields == {"compositionId", "fps", "durationInFrames", "width", "height"}

\* A JSON value as far as its shape goes: an object with its kind ("" when
\* it has none), its files (absent, a string, or an object with the paths
\* whose values are strings) and the fields it has; or a value of another type.
ObjectOf(kind, files, fields) == [t |-> "obj", kind |-> kind, files |-> files, fields |-> fields]
FilesOf(paths) == [t |-> "obj", strings |-> paths]
NoFiles == [t |-> "absent", strings |-> {}]
StringFiles == [t |-> "str", strings |-> {}]
NullReply == [t |-> "null"]
NumberReply == [t |-> "num"]

\* The fallback of lines 508-520.
fallback == ObjectOf("remotion-project", FilesOf(ProjectPaths), ProjectFields)

\* { error: ... } of sendJSON.
ErrorBody(message) == [t |-> "error", message |-> message]

\* What callOpenAI can come to (lines 85-90, 301-333): it throws an error
\* with a status and a message, exposed or not, or returns the parsed reply.
\* A rejected fetch throws an error without a status.
Thrown(status, message, expose) ==
    [t |-> "throw", status |-> status, message |-> message, expose |-> expose]
Returned(spec) == [t |-> "return", spec |-> spec]
NoKeyError == Thrown(503, "OPENAI_API_KEY is not set", TRUE)
UpstreamErrors ==
    { Thrown(502, "OpenAI error", FALSE), Thrown(502, "OpenAI returned no content", FALSE),
      Thrown(502, "Failed to parse JSON from model", FALSE), Thrown(0, "fetch failed", FALSE) }
ModelReplies ==
    {NullReply, NumberReply}
        \cup { ObjectOf(kind, files, fields) :
                  kind \in {"remotion-project", "video", ""},
                  files \in {NoFiles, StringFiles} \cup {FilesOf(ps) : ps \in SUBSET ProjectPaths},
                  fields \in {ProjectFields, ProjectFields \ {"fps"}, {}} }
callOpenAI(hasKey) ==
    IF ~hasKey THEN {NoKeyError}
    ELSE UpstreamErrors \cup {Returned(spec) : spec \in ModelReplies}

\* The validation of line 496.
valid(spec) ==
    /\ spec.t = "obj"
    /\ spec.kind = "remotion-project"
    /\ spec.files.t = "obj"
    /\ "src/index.ts" \in spec.files.strings
    /\ "src/Root.tsx" \in spec.files.strings

\* 2 * 1024 * 1024 of line 455.
MaxGuidanceImage == 2097152

\* The response of POST /api/generate (lines 447-527) to body when
\* callOpenAI comes to outcome: [status, body, fallbackHeader, upstream].
Respond(srv, body, outcome) ==
    LET answer(status, data, header, called) ==
            [srv EXCEPT !.status = status, !.body = data, !.fallbackHeader = header,
                        !.upstream = called]
    IN  IF ~body.json THEN answer(400, ErrorBody("Invalid JSON"), FALSE, NoOutcome)
        ELSE IF body.guidanceImage > MaxGuidanceImage
        THEN answer(413, ErrorBody("Guidance image too large (max ~2MB as data URL)"),
                    FALSE, NoOutcome)
        ELSE IF outcome.t = "return"
        THEN IF ~valid(outcome.spec)
             THEN answer(502, ErrorBody("Model returned unexpected format"), FALSE, outcome)
             ELSE answer(200, outcome.spec, FALSE, outcome)
        ELSE IF srv.DEV_FALLBACK \in {"1", "true", "on"}
        THEN answer(200, fallback, TRUE, outcome)
        ELSE LET status == IF outcome.status = 0 THEN 500 ELSE outcome.status
             IN  answer(IF status = 500 THEN 502 ELSE status,
                        ErrorBody(IF outcome.expose THEN outcome.message ELSE "Upstream error"),
                        FALSE, outcome)

\* POST /api/generate (transpile.ts lines 447-527): the body is parsed, the
\* augmented prompt is put together, the model is called and the response sent.
ApiGenerate ==
    /\ posted.sent /\ ~posted.received
    /\ \E outcome \in callOpenAI(server.hasKey) :
           server' = Respond(server, posted, outcome)
    /\ posted' = [posted EXCEPT !.received = TRUE,
                                !.ctx = IF posted.json THEN blocksCtx(posted.blocks) ELSE <<>>]
    /\ lastOp' = Op("api", -1, "-")
    /\ UNCHANGED <<segVars, blocks, syncVars, editingBlock, creating, stored, used, uiVars>>

InitGen ==
    /\ \/ segments \in GenLists /\ prompt = <<>>
       \/ segments = <<TextSeg(0, <<>>)>> /\ prompt \in GenPrompts
    /\ nextUid = Len(segments)
    /\ hoveredDropIndex = -1
    /\ lastOp = NoOp
    /\ editingToken = NoEditing
    /\ mounted = FALSE
    /\ view = <<>>
    /\ suppressSyncRef = FALSE
    /\ skipInputRef = FALSE
    /\ effectPending = FALSE
    /\ timers = <<>>
    /\ \E bs \in Lookups : InitBlocks(bs)

NextGen ==
    \/ Generate
    \/ ApiGenerate
    \/ FlattenPrompt

\* Flattening as functions: applied to any composer, prompt and lookup.
SpecGen == InitGen /\ [][NextGen]_vars

\* What DEV_FALLBACK and the length of guidanceImage are drawn from.
FallbackSettings == {"", "1", "true", "on", "TRUE", "On", "0", "yes"}
ImageLengths == {0, MaxGuidanceImage, MaxGuidanceImage + 1}

\* A server started with any environment, and the composer as it starts.
InitApi ==
    /\ InitSeg
    /\ InitEditor
    /\ mounted = FALSE
    /\ blocks = ComposerBlocks
    /\ stored = ComposerBlocks
    /\ editingBlock = NoEditingBlock
    /\ creating = NoRequest
    /\ used = <<>>
    /\ posted = NoBody
    /\ InitUi
    /\ \E hasKey \in BOOLEAN, devFallback \in FallbackSettings :
           server = Started(hasKey, devFallback)

\* A request of the page, or of any other client: the page's body with any
\* guidance image, or text that is no JSON.
PostGenerate ==
    /\ ~posted.sent
    /\ \E json \in BOOLEAN, len \in ImageLengths :
           posted' = [RequestBody(segments, blocks) EXCEPT !.json = json,
                                                          !.guidanceImage = len]
    /\ used' = extractBlocksFromSegments(segments, blocks)
    /\ lastOp' = Op("generate", -1, "-")
    /\ UNCHANGED <<segVars, blocks, syncVars, editingBlock, creating, stored, server, uiVars>>

\* The client has read the response; the next request can be sent.
ReadResponse ==
    /\ posted.received
    /\ posted' = NoBody
    /\ lastOp' = Op("read", -1, "-")
    /\ UNCHANGED <<segVars, blocks, syncVars, editingBlock, creating, stored, used, server, uiVars>>

NextApi ==
    \/ PostGenerate
    \/ ApiGenerate
    \/ ReadResponse

\* POST /api/generate under any environment, request and model outcome.
SpecApi == InitApi /\ [][NextApi]_vars

\* ------------------------------------------------------- the HTTP handler

\* The most requests the server has in hand at a time.
MaxConns == 1

\* 'gpt-5' of line 30 and 'gpt-5-nano' of lines 412 and 463.
DefaultModel == <<"g","p","t","-","5">>
DefaultFastModel == <<"g","p","t","-","5","-","n","a","n","o">>

\* Boolean(v) and String(v) of a JSON value.
Boolean(v) ==
    CASE v.t = "str"  -> v.s # <<>>
      [] v.t = "num"  -> v.n # 0
      [] v.t = "bool" -> v.n = 1
      [] OTHER        -> FALSE
String(v) ==
    CASE v.t = "str"  -> v.s
      [] v.t = "num"  -> NumText(v.n)
      [] v.t = "bool" -> (IF v.n = 1 THEN TrueText ELSE FalseText)
      [] v.t = "null" -> NullText
      [] OTHER        -> UndefinedText

\* a || b of two strings.
OrElse(a, b) == IF a # <<>> THEN a ELSE b

\* No request has been answered yet.
NoConn == [at |-> "none"]

\* The process as started (lines 29-31) with OPENAI_API_KEY set or not and
\* these values of OPENAI_MODEL, OPENAI_FAST_MODEL and DEV_FALLBACK in its
\* environment (<<>> and "" when unset): the constants of lines 29-31,
\* process.env, the requests in hand, and the request answered last.  boot
\* keeps the environment of the start.
Booted(hasKey, envModel, envFast, devFallback) ==
    [hasKey |-> hasKey,
     OPENAI_MODEL |-> OrElse(envModel, DefaultModel),
     DEV_FALLBACK |-> toLowerCase(devFallback),
     env |-> [OPENAI_MODEL |-> envModel, OPENAI_FAST_MODEL |-> envFast],
     boot |-> [OPENAI_MODEL |-> envModel, OPENAI_FAST_MODEL |-> envFast],
     conns |-> <<>>,
     last |-> NoConn]

\* Request bodies: text that is no JSON, more than 512 KB of text, the JSON
\* null, and a JSON object with its model and fast fields and its project
\* ("absent", "nocomp": files without src/MyComp.tsx, "ok").
TextBody == [t |-> "text", model |-> Undef, fast |-> Undef, project |-> "absent"]
LargeBody == [t |-> "large", model |-> Undef, fast |-> Undef, project |-> "absent"]
NullBody == [t |-> "null", model |-> Undef, fast |-> Undef, project |-> "absent"]
ObjectBody(model, fast, project) == [t |-> "obj", model |-> model, fast |-> fast, project |-> project]
EmptyBody == ObjectBody(Undef, Undef, "absent")

\* A request as the handler is called with it: nothing written to res, the
\* socket open.  written counts the calls of sendJSON and sendText and the
\* writeHead/end pairs, wire the responses that went out on the socket.
Incoming(method, url, body) ==
    [method |-> method, url |-> url, body |-> body, at |-> "start", model |-> <<>>,
     written |-> 0, wire |-> 0, destroyed |-> FALSE, status |-> 0, data |-> NoOutcome]

\* sendJSON, sendText (lines 55-67) and the writeHead/end pairs of lines 391
\* and 379-380: the response goes out unless the socket was destroyed; a
\* second writeHead raises, and the try of line 538 swallows it.
Send(c, status, data) ==
    IF c.written > 0
    THEN [c EXCEPT !.at = "done", !.written = @ + 1]
    ELSE [c EXCEPT !.at = "done", !.written = 1, !.wire = IF c.destroyed THEN 0 ELSE 1,
                   !.status = status, !.data = data]

\* The catch of lines 537-539.
ServerError(c) == Send(c, 500, ErrorBody("Server error"))

\* process.env.OPENAI_MODEL as callOpenAI or /api/health would read it anew.
ProcessEnvModel(srv) == OrElse(srv.env.OPENAI_MODEL, DefaultModel)

\* The constant OPENAI_MODEL (line 30), read at lines 293, 394 and 463.
ConfiguredModel(srv) == srv.OPENAI_MODEL

\* The body of GET /api/health (line 394).
Health(srv) == [t |-> "health", model |-> ConfiguredModel(srv), hasKey |-> srv.hasKey]

\* The model of a /api/generate request (line 463).
ModelOfRequest(srv, json) ==
    IF Boolean(json.model) THEN String(json.model)
    ELSE IF Boolean(json.fast) THEN OrElse(srv.env.OPENAI_FAST_MODEL, DefaultFastModel)
    ELSE ConfiguredModel(srv)

\* body.model of callOpenAI (line 293).
ModelOfCall(srv, modelOverride) == OrElse(modelOverride, OrElse(ConfiguredModel(srv), DefaultModel))

\* A block parameter record as far as its shape goes, and what else a model
\* can answer with.
RecordOf(id, name, params) == [t |-> "obj", id |-> id, name |-> name, params |-> params]
ArrayReply == [t |-> "array"]
\* buildParamFallback (lines 336-349).
buildParamFallback == RecordOf(TRUE, TRUE, TRUE)

\* How the fetch of line 428 and the reading of its response can end: the
\* fetch rejects, the status is not OK, the response is no JSON or has no
\* content, the content is no JSON, or the content parses to a value.
ParamOutcomes ==
    { [t |-> "reject"], [t |-> "notOk"], [t |-> "noContent"], [t |-> "unparsable"] }
        \cup { [t |-> "parsed", value |-> v] :
                  v \in {NullReply, NumberReply, ArrayReply}
                        \cup {RecordOf(id, name, params) : id, name, params \in BOOLEAN} }

\* What the model calls of /api/generate end with here.
GenerateOutcomes ==
    UpstreamErrors \cup {Returned(fallback), Returned(NullReply),
                         Returned(ObjectOf("video", NoFiles, {}))}

\* The handler from its start to its first await (lines 385-398, 447,
\* 530-536, serveStatic 351-365).  decodeURIComponent raises on "/%".
HandlerStart(srv, c) ==
    IF c.method = "OPTIONS" THEN Send(c, 204, NoOutcome)
    ELSE IF c.method = "GET" /\ c.url = "/api/health" THEN Send(c, 200, Health(srv))
    ELSE IF c.method = "POST" /\ c.url \in {"/api/blocks/params", "/api/generate"}
    THEN [c EXCEPT !.at = "body"]
    ELSE IF c.method = "GET"
    THEN IF c.url = "/%" THEN ServerError(c) ELSE [c EXCEPT !.at = "file"]
    ELSE Send(c, 405, [t |-> "text", message |-> "Method Not Allowed"])

\* /api/blocks/params from the end of readBody to the fetch (lines 399-428).
ParamsAfterBody(srv, c) ==
    IF c.body.t = "text" THEN Send(c, 400, ErrorBody("Invalid JSON"))
    ELSE IF c.body.t = "null" THEN ServerError(c)
    ELSE IF c.body.project # "ok" THEN Send(c, 400, ErrorBody("Missing project files"))
    ELSE IF ~srv.hasKey THEN Send(c, 200, buildParamFallback)
    ELSE [c EXCEPT !.at = "fetch",
                   !.model = OrElse(srv.env.OPENAI_FAST_MODEL, DefaultFastModel)]

\* /api/blocks/params from the end of the fetch (lines 429-444).
ParamsAfterFetch(c, o) ==
    IF o.t # "parsed" THEN Send(c, 200, buildParamFallback)
    ELSE IF o.value.t \in {"null", "num"} THEN Send(c, 200, buildParamFallback)
    ELSE IF o.value.t = "array" THEN Send(c, 200, ArrayReply)
    ELSE Send(c, 200, [o.value EXCEPT !.id = TRUE])

\* The response of /api/generate to what callOpenAI came to (lines 495-524).
GenerateAnswer(srv, c, outcome) ==
    LET r == Respond([DEV_FALLBACK |-> srv.DEV_FALLBACK, status |-> 0, body |-> NoOutcome,
                      fallbackHeader |-> FALSE, upstream |-> NoOutcome],
                     [json |-> TRUE, guidanceImage |-> 0], outcome)
    IN  Send(c, r.status, r.body)

\* /api/generate from the end of readBody to the fetch of callOpenAI (lines
\* 448-495, 85-90, 292-301).
GenerateAfterBody(srv, c) ==
    IF c.body.t = "text" THEN Send(c, 400, ErrorBody("Invalid JSON"))
    ELSE IF c.body.t = "null" THEN ServerError(c)
    ELSE IF ~srv.hasKey THEN GenerateAnswer(srv, c, NoKeyError)
    ELSE [c EXCEPT !.at = "fetch",
                   !.model = ModelOfCall(srv, ModelOfRequest(srv, c.body))]

\* process.env after line 464.
EnvAfterBody(srv, c) ==
    IF c.url = "/api/generate" /\ c.body.t = "obj"
    THEN [srv.env EXCEPT !.OPENAI_MODEL = ModelOfRequest(srv, c.body)]
    ELSE srv.env

\* srv with request i of those in hand now being c: a request that was
\* answered leaves them and is the one answered last.
Proceed(srv, i, c, env) ==
    IF c.at = "done"
    THEN [srv EXCEPT !.env = env, !.last = c,
                     !.conns = SubSeq(srv.conns, 1, i - 1) \o SubSeq(srv.conns, i + 1, Len(srv.conns))]
    ELSE [srv EXCEPT !.env = env, !.conns[i] = c]

ServerStep(srv, op) ==
    /\ server' = srv
    /\ lastOp' = Op(op, -1, "-")
    /\ UNCHANGED <<segVars, blocks, syncVars, editingBlock, creating, stored, used, posted, uiVars>>

\* A request arrives and the handler runs to its first await.
Accept(requests, max) ==
    /\ Len(server.conns) < max
    /\ \E c \in requests :
           ServerStep(Proceed([server EXCEPT !.conns = Append(@, c)], Len(server.conns) + 1,
                              HandlerStart(server, c), server.env), "accept")

\* readBody (lines 69-83) settles and the handler runs on: a body over 512 KB
\* rejects and destroys the request, and with it the socket (lines 75-76).
BodyRead ==
    \E i \in 1..Len(server.conns) :
        LET c == server.conns[i]
        IN  /\ c.at = "body"
            /\ ServerStep(
                  IF c.body.t = "large"
                  THEN Proceed(server, i, ServerError([c EXCEPT !.destroyed = TRUE]), server.env)
                  ELSE IF c.url = "/api/generate"
                  THEN Proceed(server, i, GenerateAfterBody(server, c), EnvAfterBody(server, c))
                  ELSE Proceed(server, i, ParamsAfterBody(server, c), server.env),
                  "body")

\* The fetch of a request settles and the handler runs to its end.
FetchSettles ==
    \E i \in 1..Len(server.conns) :
        LET c == server.conns[i]
        IN  /\ c.at = "fetch"
            /\ IF c.url = "/api/generate"
               THEN \E o \in GenerateOutcomes :
                        ServerStep(Proceed(server, i, GenerateAnswer(server, c, o), server.env), "fetch")
               ELSE \E o \in ParamOutcomes :
                        ServerStep(Proceed(server, i, ParamsAfterFetch(c, o), server.env), "fetch")

\* The callback of fs.readFile (lines 367-381).
FileRead ==
    \E i \in 1..Len(server.conns), err \in BOOLEAN :
        LET c == server.conns[i]
        IN  /\ c.at = "file"
            /\ ServerStep(Proceed(server, i,
                                  IF err THEN Send(c, 404, [t |-> "text", message |-> "Not Found"])
                                  ELSE Send(c, 200, [t |-> "file"]),
                                  server.env), "file")

\* The requests the handler is explored with: every branch of its routing,
\* and every kind of body for the two POST routes.
ProjectKinds == {"absent", "nocomp", "ok"}
ModelFields == {Undef, StrV(<<"o","4">>), NumV(0), NumV(7)}
FastFields == {Undef, BoolV(TRUE)}
ServerRequests ==
    { Incoming("OPTIONS", "/api/generate", EmptyBody), Incoming("PUT", "/api/generate", EmptyBody),
      Incoming("POST", "/index.html", EmptyBody) }
        \cup { Incoming("GET", url, EmptyBody) :
                  url \in {"/api/health", "/api/blocks/params", "/index.html", "/%"} }
        \cup { Incoming("POST", url, body) :
                  url \in {"/api/blocks/params", "/api/generate"},
                  body \in {TextBody, LargeBody, NullBody} }
        \cup { Incoming("POST", "/api/blocks/params", ObjectBody(Undef, Undef, project)) :
                  project \in ProjectKinds }
        \cup { Incoming("POST", "/api/generate", ObjectBody(StrV(<<"o","4">>), BoolV(TRUE), "absent")) }

InitServer ==
    /\ InitSeg
    /\ InitEditor
    /\ mounted = FALSE
    /\ blocks = ComposerBlocks
    /\ stored = ComposerBlocks
    /\ editingBlock = NoEditingBlock
    /\ creating = NoRequest
    /\ used = <<>>
    /\ posted = NoBody
    /\ InitUi
    /\ \E hasKey \in BOOLEAN, devFallback \in {"", "1"} :
           server = Booted(hasKey, <<>>, <<>>, devFallback)

AcceptAny == Accept(ServerRequests, MaxConns)

NextServer ==
    \/ AcceptAny
    \/ BodyRead
    \/ FetchSettles
    \/ FileRead

\* The HTTP handler under every kind of request and upstream outcome.
SpecServer == InitServer /\ [][NextServer]_vars

\* The most requests in hand at a time where the model choice is explored.
MaxInFlight == 2

\* Requests that choose a model, and requests that are told one.
ModelRequests ==
    { Incoming("GET", "/api/health", EmptyBody),
      Incoming("POST", "/api/generate", ObjectBody(StrV(<<>>), Undef, "absent")) }
        \cup { Incoming("POST", "/api/generate", ObjectBody(model, fast, "absent")) :
                  model \in {Undef, StrV(<<"o","4">>)}, fast \in FastFields }

\* A server with a key, started with and without OPENAI_MODEL and
\* OPENAI_FAST_MODEL in its environment.
InitModels ==
    /\ InitSeg
    /\ InitEditor
    /\ mounted = FALSE
    /\ blocks = ComposerBlocks
    /\ stored = ComposerBlocks
    /\ editingBlock = NoEditingBlock
    /\ creating = NoRequest
    /\ used = <<>>
    /\ posted = NoBody
    /\ InitUi
    /\ \E envModel \in {<<>>, <<"e">>}, envFast \in {<<>>, <<"f">>} :
           server = Booted(TRUE, envModel, envFast, "")

AcceptModelRequest == Accept(ModelRequests, MaxInFlight)

NextModels ==
    \/ AcceptModelRequest
    \/ BodyRead
    \/ FetchSettles

\* Requests with and without a model of their own, one after another and at
\* the same time.
SpecModels == InitModels /\ [][NextModels]_vars

\* ------------------------------------------------------ the progress of generate

\* window.setInterval hands out an id that no running interval has.
FreshInterval == CHOOSE id \in 1..(Cardinality(intervals) + 1) : id \notin intervals

\* An interval that is never cleared.
KeepInterval(ids, id) == ids

\* clearInterval(id).
ClearInterval(ids, id) == ids \ {id}

\* What Math.random()*4 adds to progress in one tick, in whole numbers.
TickSteps == {1, 3}

\* generate (lines 148-165) from the click to its first await.  The buttons
\* are disabled while loading (lines 543, 546); fast goes into the request
\* body only.
GenerateClick ==
    /\ ~loading
    /\ loading' = TRUE
    /\ progress' = 10
    /\ used' = extractBlocksFromSegments(segments, blocks)
    /\ IF useMock
       THEN /\ generating' = [at |-> "timer", mock |-> TRUE, p |-> 10]
            /\ UNCHANGED <<ticking, intervals, posted>>
       ELSE /\ ticking' = FreshInterval
            /\ intervals' = intervals \cup {FreshInterval}
            /\ posted' = RequestBody(segments, blocks)
            /\ generating' = [at |-> "fetch", mock |-> FALSE, p |-> 0]
    /\ lastOp' = Op("generate", -1, "-")
    /\ UNCHANGED <<segVars, blocks, syncVars, editingBlock, creating, stored, server,
                   useMock, resetTimers>>

\* The rest of generate (lines 166-176) once the project is there (ok) or
\* an error was raised: the catch alerts, the finally clears the ticker and
\* puts off the reset.
Settle(ok) ==
    /\ progress' = IF ok THEN 100 ELSE progress
    /\ IF ticking # 0
       THEN intervals' = ClearInterval(intervals, ticking) /\ ticking' = 0
       ELSE UNCHANGED <<intervals, ticking>>
    /\ resetTimers' = resetTimers + 1
    /\ generating' = NotGenerating
    /\ lastOp' = Op("settled", -1, IF ok THEN "ok" ELSE "failed")
    /\ UNCHANGED <<segVars, blocks, syncVars, editingBlock, creating, stored, server,
                   used, posted, loading, useMock>>

\* The timer of the mock loop (line 160) runs: the next round, or the end.
MockTimer ==
    /\ generating.at = "timer"
    /\ IF generating.p + 5 <= 85
       THEN /\ progress' = generating.p + 5
            /\ generating' = [generating EXCEPT !.p = @ + 5]
            /\ lastOp' = Op("mock", -1, "-")
            /\ UNCHANGED <<segVars, blocks, syncVars, editingBlock, creating, stored, server,
                           used, posted, loading, useMock, ticking, intervals, resetTimers>>
       ELSE Settle(TRUE)

\* The fetch of line 163 and the reading of its response end: a project, a
\* status that is not OK, a rejected fetch, or a body that is no JSON.
FetchOutcomes == {"ok", "status", "reject", "json"}
FetchDone ==
    /\ generating.at = "fetch"
    /\ \E outcome \in FetchOutcomes : Settle(outcome = "ok")

\* The callback of the interval of line 153.
Tick ==
    \E id \in intervals, d \in TickSteps :
        /\ progress' = Min(95, progress + d)
        /\ lastOp' = Op("tick", -1, "-")
        /\ UNCHANGED <<segVars, blocks, syncVars, editingBlock, creating, stored, server,
                       used, posted, loading, useMock, ticking, intervals, resetTimers,
                       generating>>

\* The callback of the timeout of line 175.
ResetTimer ==
    /\ resetTimers > 0
    /\ resetTimers' = resetTimers - 1
    /\ progress' = 0
    /\ loading' = FALSE
    /\ lastOp' = Op("reset", -1, "-")
    /\ UNCHANGED <<segVars, blocks, syncVars, editingBlock, creating, stored, server,
                   used, posted, useMock, ticking, intervals, generating>>

\* The "Use mock backend" checkbox (line 548).
ToggleMock ==
    /\ useMock' = ~useMock
    /\ lastOp' = Op("mockBox", -1, "-")
    /\ UNCHANGED <<segVars, blocks, syncVars, editingBlock, creating, stored, server,
                   used, posted, loading, progress, ticking, intervals, resetTimers,
                   generating>>

NextProgress ==
    \/ GenerateClick
    \/ MockTimer
    \/ FetchDone
    \/ Tick
    \/ ResetTimer
    \/ ToggleMock

\* The Generate buttons with the mock and the real backend.
SpecProgress == Init /\ [][NextProgress]_vars

\* The browser runs a timer whose time has come: the reset of line 175 and
\* the timer of the mock loop are not put off for ever.
SpecProgressFair == SpecProgress /\ WF_vars(ResetTimer) /\ WF_vars(MockTimer)

\* --------------------------------------------------- segment-list properties

NoAdjacentText(segs) ==
    \A i \in 1..(Len(segs) - 1) : ~(segs[i].type = "text" /\ segs[i + 1].type = "text")

\* The Segment invariant of the data model: never empty, and no two
\* adjacent Text segments.
SegmentInvariant(segs) == Len(segs) >= 1 /\ NoAdjacentText(segs)

PosOf(segs, id) == {i \in 1..Len(segs) : segs[i].id = id}

FlankedByText(segs, id) ==
    \A i \in PosOf(segs, id) :
        /\ i > 1 /\ segs[i - 1].type = "text"
        /\ i < Len(segs) /\ segs[i + 1].type = "text"

\* C2: right after handleDrop inserts a Block segment into a list satisfying
\* the segment invariant, the segments directly before and directly after the
\* new block are Text segments.
C2_NewBlockFlankedByText ==
    [][\A b \in 1..Len(blocks), index \in DropIndices(segments) :
          (DropBlock(b, index) /\ SegmentInvariant(segments))
              => FlankedByText(segments', uid(nextUid, 0))]_vars

\* C8: moveSegment applied to a list with no two adjacent Text segments
\* gives a list with no two adjacent Text segments.
C8_MoveKeepsAlternation ==
    [][\A segId \in SegIds(segments), index \in DropIndices(segments) :
          (DropMove(segId, index) /\ NoAdjacentText(segments))
              => NoAdjacentText(segments')]_vars

\* The list without the segment carrying this id.
Without(segs, id) == SelectSeq(segs, LAMBDA s : s.id # id)

\* moveSegment as "remove the source at 0-based position p, then insert it
\* before the element formerly at position t" (at the end when t is the
\* length); q is where the moved segment ends up.
MovedBefore(before, after, segId, p, t) ==
    LET q == FirstOf({i \in 0..(Len(after) - 1) : At0(after, i).id = segId})
    IN  /\ Len(after) = Len(before)
        /\ Without(after, segId) = Without(before, segId)
        /\ q # -1 /\ At0(after, q) = At0(before, p)
        /\ q = (IF p < t THEN t - 1 ELSE t)
        /\ (t < Len(before) /\ t # p) => At0(after, q + 1) = At0(before, t)
        /\ t = Len(before) => q = Len(after) - 1
        /\ (p = t \/ p + 1 = t) => after = before

\* C9: for every source position p and target index t in 0..length,
\* moveSegment removes the source and inserts it before the element formerly
\* at position t: the target is decremented exactly when p < t, and p = t or
\* p + 1 = t leaves the order unchanged.
C9_MoveIsRemoveThenInsert ==
    [][\A segId \in SegIds(segments), index \in DropIndices(segments) :
          (lastOp'.op = "move" /\ lastOp'.id = segId /\ DropMove(segId, index))
              => MovedBefore(segments, segments', segId,
                             IndexOfSeg(segments, segId), TargetIndex(index))]_vars

\* A move has just taken a segment forward past another one, to a target
\* before the end of the list.
C9_Witness ==
    /\ lastOp.op = "move" /\ lastOp.dir = "forward"
    /\ lastOp.id \in SegIds(segments)
    /\ segments[Len(segments)].id # lastOp.id

\* The Block segments of a list, in order.
BlocksOf(segs) == SelectSeq(segs, LAMBDA s : s.type = "block")

\* The Text values of a list concatenated in order.
RECURSIVE ConcatText(_)
ConcatText(segs) ==
    IF segs = <<>> THEN <<>>
    ELSE (IF Head(segs).type = "text" THEN Head(segs).value ELSE <<>>) \o ConcatText(Tail(segs))

RemovedFrom(before, after, id) ==
    LET rest == Without(before, id)
    IN  /\ PosOf(after, id) = {}
        /\ Len(after) >= 1
        /\ rest = <<>> =>
              /\ Len(after) = 1
              /\ after[1].type = "text" /\ after[1].value = <<>>
        /\ NoAdjacentText(after)
        /\ BlocksOf(after) = BlocksOf(rest)
        /\ ConcatText(after) = ConcatText(rest)

\* C10: removeSeg(id) returns a list without that segment, never empty (one
\* empty Text segment when nothing is left), with no two adjacent Text
\* segments, the remaining Block segments in their order, and the remaining
\* Text values concatenated in order unchanged.
C10_RemoveSegResult ==
    [][\A id \in SegIds(segments) :
          (lastOp'.op = "remove" /\ lastOp'.id = id /\ Remove(id))
              => RemovedFrom(segments, segments', id)]_vars

\* A removal has just merged two different non-empty Text values into one.
C10_Witness ==
    /\ lastOp.op = "remove"
    /\ \E i \in 1..Len(segments) :
          segments[i].type = "text" /\ segments[i].value \in {<<"a","b">>, <<"b","a">>}

\* ---------------------------------------------------------- editor properties

\* No effect and no deferred callback is pending.
Quiescent == ~effectPending /\ timers = <<>>
\* Quiescent, and no suppression is pending either.
Settled == Quiescent /\ ~suppressSyncRef /\ ~skipInputRef

\* The view syncEditorFromText would build of the current prompt.
Rendered == ParseHTML(renderPromptHTML(prompt, blocks))

\* C3: in every settled state of the editor, textFromEditor gives back prompt
\* and rendering prompt gives the view the editor shows.
C3_SettledViewConsistent ==
    (mounted /\ Settled) =>
        /\ textFromEditor(mounted, view, prompt) = prompt
        /\ SameContents(view, Rendered)

\* C4: once a drop or a token save has changed prompt and its effect and
\* deferred callbacks have run, the view is the rendering of the new prompt.
C4_NonRichChangeRerenders ==
    (mounted /\ Quiescent /\ lastOp.op \in {"drop", "save"} /\ lastOp.dir = "changed") =>
        SameContents(view, Rendered)

\* C5: when the effect and the deferred callbacks of a sync cycle have run,
\* neither suppressSyncRef nor skipInputRef is still true.
C5_FlagsClearedAfterCycle == Quiescent => (~suppressSyncRef /\ ~skipInputRef)

\* The token of text that starts at position start, as findTokenByIndex
\* reports it; NoToken when none starts there.
TokenStartingAt(text, start) ==
    LET S == {i \in 0..(Len(Matches(text)) - 1) : findTokenByIndex(text, i).start = start}
    IN  IF S = {} THEN NoToken ELSE findTokenByIndex(text, FirstOf(S))

\* C6: the token saveEditingToken writes parses back, with findTokenByIndex,
\* to the dialog's block id and exactly the dialog's key-to-value mapping.
C6_TokenRoundTrip ==
    [][SaveEditingToken =>
          LET info == TokenStartingAt(prompt', editingToken.start)
          IN  /\ info.blockId = editingToken.blockId
              /\ info.params = editingToken.values]_vars

TokenNodes(nodes) == SelectSeq(nodes, LAMBDA n : n.k = "token")

\* C7: the view rendered from prompt reads back as prompt, and its i-th
\* token widget contributes the i-th token of prompt verbatim.
C7_ViewRoundTrip ==
    [][(RunEffect /\ mounted /\ ~suppressSyncRef) =>
          /\ textFromEditor(mounted, view', prompt') = prompt'
          /\ Len(TokenNodes(view')) = Len(Matches(prompt'))
          /\ \A i \in 1..Len(TokenNodes(view')) :
                 NodeText(TokenNodes(view')[i])
                     = Slice0(prompt', Matches(prompt')[i].start, Matches(prompt')[i].end)]_vars

\* A prompt has been rendered into a text run with a markup character and
\* the widget of a token whose block id has no definition.
C7_Witness ==
    /\ mounted /\ ~effectPending /\ prompt # <<>>
    /\ \E i \in 1..Len(view) : view[i].k = "token" /\ view[i].bid = encodeAttr(UnknownBlockId)
    /\ \E i \in 1..Len(view) : view[i].k = "text" /\ \E j \in 1..Len(view[i].s) : view[i].s[j] \in {"&", "<"}

\* C11: the segment list always holds at least one Text segment.
C11_AlwaysOneText == \E i \in 1..Len(segments) : segments[i].type = "text"

\* The segments of segs whose id is in ids, in order.
Keep(segs, ids) == SelectSeq(segs, LAMBDA s : s.id \in ids)

\* after is before with additions only: the old segments are all there,
\* unchanged and in order; what is new is one Block segment newId of
\* definition def with every declared parameter at its default, and empty
\* Text segments.
InsertedInto(before, after, newId, def) ==
    LET added == Keep(after, SegIds(after) \ SegIds(before))
    IN  /\ Keep(after, SegIds(before)) = before
        /\ Cardinality({i \in 1..Len(added) : added[i].type = "block"}) = 1
        /\ \A i \in 1..Len(added) :
               IF added[i].type = "block"
               THEN /\ added[i].id = newId
                    /\ added[i].blockId = def.id
                    /\ DOMAIN added[i].values = {def.params[j].key : j \in 1..Len(def.params)}
                    /\ \A j \in 1..Len(def.params) :
                           added[i].values[def.params[j].key] = def.params[j].default
               ELSE added[i].value = <<>>
        /\ Len(after) = Len(before) + Len(added)

\* C12: a block insertion keeps every segment there was, unchanged and in
\* order, and adds one Block segment with the definition's defaults plus
\* empty Text segments; at index 0 of a single Text it gives
\* [Text(""), Block, that Text].
C12_InsertKeepsSegments ==
    [][\A b \in 1..Len(blocks), index \in DropIndices(segments) :
          (lastOp'.op = "insert" /\ DropBlock(b, index)) =>
              /\ InsertedInto(segments, segments', uid(nextUid, 0), blocks[b].def)
              /\ (Len(segments) = 1 /\ segments[1].type = "text" /\ TargetIndex(index) = 0) =>
                     /\ Len(segments') = 3
                     /\ segments'[1].type = "text" /\ segments'[1].value = <<>>
                     /\ segments'[2].type = "block" /\ segments'[2].id = uid(nextUid, 0)
                     /\ segments'[3] = segments[1]]_vars

\* A block has just been inserted behind the first segment of a list that
\* already held a block and a non-empty Text.
C12_Witness ==
    /\ lastOp.op = "insert"
    /\ \E i \in 2..Len(segments) : segments[i].id = lastOp.id /\ segments[i].type = "block"
    /\ \E i \in 1..Len(segments) : segments[i].type = "block" /\ segments[i].id # lastOp.id
    /\ \E i \in 1..Len(segments) : segments[i].type = "text" /\ segments[i].value # <<>>

\* The number of characters textFromEditor reads before the caret.  For a
\* selection in a widget's label, the position before the widget's token.
CaretOffset(nodes, caret) ==
    IF caret.off = -1 THEN Len(ViewText(SubSeq(nodes, 1, caret.at)))
    ELSE Len(ViewText(SubSeq(nodes, 1, caret.at - 1))) + caret.off

\* text with token put in after its first pos characters.
InsertAt(text, pos, token) == Slice0(text, 0, pos) \o token \o Slice0(text, pos, Len(text))

\* C13: the string a token insertion publishes is the editor's text with the
\* token put in at the caret (for a selection in a widget, before or after
\* that widget's token), or prompt with the token at its end when the editor
\* is not there.
C13_InsertAtCaret ==
    [][\A b \in 1..Len(blocks), caret \in Carets(view) :
          (lastOp'.op = "drop" /\ OnEditorDrop(b, caret)) =>
              LET token == BareToken(blocks[b].def.id)
                  text == ViewText(view)
                  pos == CaretOffset(view, caret)
              IN  IF ~mounted THEN prompt' = prompt \o token
                  ELSE IF caret.off = 0
                  THEN prompt' \in { InsertAt(text, pos, token),
                                     InsertAt(text, pos + Len(NodeText(view[caret.at])), token) }
                  ELSE prompt' = InsertAt(text, pos, token)]_vars

\* Whether string p occurs in s.
Contains(s, p) == IndexOf(s, p) # -1

\* C14: when a drop on the editor and its deferred callbacks are through,
\* prompt contains the dropped token, the view is the rendering of prompt,
\* and it shows a widget of that token and no marker text.
C14_DropMaterializesWidget ==
    (mounted /\ Quiescent /\ lastOp.op = "drop") =>
        LET token == BareToken(blocks[lastOp.id].def.id)
        IN  /\ Contains(prompt, token)
            /\ SameContents(view, Rendered)
            /\ \E i \in 1..Len(view) : view[i].k = "token" /\ decodeAttr(view[i].tok) = token
            /\ \A i \in 1..Len(view) : view[i].k = "text" => ~Contains(view[i].s, Marker)

\* C15: whenever a widget can be clicked, the token of prompt that
\* findTokenByIndex finds for the widget's index spans the widget's embedded
\* substring.
C15_WidgetIndexFindsToken ==
    UserCanAct =>
        \A j \in 1..Len(view) :
            view[j].k = "token" =>
                LET info == findTokenByIndex(prompt, view[j].idx)
                IN  /\ info # NoToken
                    /\ Slice0(prompt, info.start, info.end) = decodeAttr(view[j].tok)

\* C16: an open dialog, of a chip or of a token, is about a block id that
\* has a definition.
C16_DialogHasDefinition ==
    /\ editingBlock # NoEditingBlock => FindBlock(blocks, editingBlock.blockId) # 0
    /\ editingToken # NoEditing => FindBlock(blocks, editingToken.blockId) # 0

\* Definition d is in list bs as it is.
HasDefinition(bs, d) == \E j \in 1..Len(bs) : bs[j] = d
\* Sequence p is the beginning of sequence q.
IsPrefix(p, q) == Len(p) <= Len(q) /\ SubSeq(q, 1, Len(p)) = p

\* C17: a step changes an existing definition only by appending parameters
\* to it, and when createBlock completes, every definition there was just
\* before is still there unchanged, in blocks and in blocks_v1.
C17_DefinitionsAppendOnly ==
    [][/\ \A i \in 1..Len(blocks), j \in 1..Len(blocks') :
              blocks'[j].def.id = blocks[i].def.id =>
                  /\ IsPrefix(blocks[i].def.params, blocks'[j].def.params)
                  /\ [blocks'[j].def EXCEPT !.params = <<>>] = [blocks[i].def EXCEPT !.params = <<>>]
       /\ CreateBlockDone =>
              \A i \in 1..Len(blocks) :
                  HasDefinition(blocks', blocks[i]) /\ HasDefinition(stored', blocks[i])]_vars

\* ------------------------------------------------------ flattening properties

Resolves(bs, id) == \E i \in 1..Len(bs) : bs[i].def.id = id
\* The positions of the Block segments whose id is in the lookup.
KnownSegs(segs, bs) ==
    {i \in 1..Len(segs) : segs[i].type = "block" /\ Resolves(bs, segs[i].blockId)}
\* The positions of the tokens whose id is in the lookup.
KnownTokens(text, bs) ==
    {i \in 1..Len(Matches(text)) : Resolves(bs, Matches(text)[i].id)}
Rank(S, i) == Cardinality({j \in S : j <= i})
\* u is the usage record of a reference to id with the given values.
RecordFor(u, bs, id, values) ==
    LET def == bs[FindBlock(bs, id)].def
    IN  /\ u.id = id
        /\ u.name = def.name
        /\ Len(u.params) = Len(def.params)
        /\ \A j \in 1..Len(def.params) :
               /\ u.params[j].key = def.params[j].key
               /\ u.params[j].value = Get(values, def.params[j].key)
\* segs without the Block segments whose id is not in the lookup.
WithoutUnknown(segs, bs) ==
    SelectSeq(segs, LAMBDA seg : seg.type = "text" \/ Resolves(bs, seg.blockId))

\* C18: flattening emits one usage record per Block segment or token whose id
\* is in the definition lookup, in the order of the input; references to
\* unknown ids are skipped and leave the records of the other usages as they
\* are without them.
C18_FlatteningInOrder ==
    /\ lastOp.op = "generate" =>
           LET K == KnownSegs(segments, blocks)
           IN  /\ Len(used) = Cardinality(K)
               /\ \A i \in K : RecordFor(used[Rank(K, i)], blocks,
                                          segments[i].blockId, segments[i].values)
               /\ used = extractBlocksFromSegments(WithoutUnknown(segments, blocks), blocks)
    /\ lastOp.op = "flatten" =>
           LET K == KnownTokens(prompt, blocks)
           IN  /\ Len(used) = Cardinality(K)
               /\ \A i \in K : RecordFor(used[Rank(K, i)], blocks, Matches(prompt)[i].id,
                                          ParseParams(Matches(prompt)[i].rest))

C18_Witness ==
    /\ lastOp.op = "generate"
    /\ Len(segments) = 2
    /\ segments[1].type = "block" /\ segments[1].blockId = UnknownBlockId
    /\ Len(used) = 1 /\ used[1].id = segments[2].blockId

\* The effective value of a declared parameter in a segment: the explicit
\* value if the segment has one, otherwise the definition's default.
EffectiveValue(values, p) == IF p.key \in DOMAIN values THEN values[p.key] ELSE p.default

\* C19: for every resolved usage of a generation request, each declared
\* parameter is paired, in declared order, with its effective value, and that
\* value is the one in the Parameters line and in the parameter's explain
\* sentence.
C19_EffectiveValueUsed ==
    posted.received =>
        LET K == KnownSegs(segments, blocks)
        IN  \A i \in K :
                LET def == blocks[FindBlock(blocks, segments[i].blockId)].def
                    b == posted.blocks[Rank(K, i)]
                    e(j) == EffectiveValue(segments[i].values, def.params[j])
                IN  /\ Len(b.params) = Len(def.params)
                    /\ \A j \in 1..Len(def.params) :
                           /\ b.params[j].key = def.params[j].key
                           /\ ParamValue(b.params[j]) = e(j)
                           /\ ExplainValue(b, b.def[j]) = e(j)
                    /\ posted.ctx[Rank(K, i)].parameters =
                           Join([j \in 1..Len(def.params) |->
                                    def.params[j].key \o <<"=">> \o JsonStringify(e(j))],
                                <<",", " ">>)

UniqueKeys(def) ==
    \A a, b \in 1..Len(def.params) : def.params[a].key = def.params[b].key => a = b

\* C20: for a parameter with an explain template that holds one placeholder,
\* the sentence in the request's Effects is the template with the placeholder
\* replaced by the JSON rendering of the parameter's effective value (keys
\* unique within the definition, as the data model has them).
C20_ExplainSentence ==
    posted.received =>
        LET K == KnownSegs(segments, blocks)
        IN  \A i \in K :
                LET def == blocks[FindBlock(blocks, segments[i].blockId)].def
                IN  UniqueKeys(def) =>
                        \A j \in 1..Len(def.params) :
                            LET tpl == ExplainOf(def.params[j])
                                at == IndexOf(tpl, Placeholder)
                                v == EffectiveValue(segments[i].values, def.params[j])
                            IN  (at # -1 /\ IndexOfFrom(tpl, Placeholder, at + 1) = -1) =>
                                    posted.ctx[Rank(K, i)].effects[j] =
                                        Slice0(tpl, 0, at) \o JsonStringify(v)
                                            \o Slice0(tpl, at + Len(Placeholder), Len(tpl))

\* ------------------------------------------------------------ drop properties

\* C23: a drop whose payload carries no segment id of the list and no
\* definition id of the lookup leaves the segment list as it is.
C23_UnrecognizedDropIsNoOp ==
    [][\A index \in DropZones(segments),
          payload \in OtherPayloads(segments, blocks, nextUid) :
          (lastOp'.op = "other" /\ DropOther(payload, index)) => segments' = segments]_vars

C23_Witness ==
    /\ lastOp.op = "other" /\ lastOp.dir = "block"
    /\ Len(segments) >= 3

\* C26: for a list of n segments there is a drop zone for every insertion
\* index 0..n.
C26_ZoneForEveryIndex == \A i \in DropIndices(segments) : i \in DropZones(segments)

\* ----------------------------------------------------------- token properties

IsPair(w) == IndexOf(w, <<"=">>) > 0
PairKey(w) == Slice0(w, 0, IndexOf(w, <<"=">>))
PairValue(w) == Slice0(w, IndexOf(w, <<"=">>) + 1, Len(w))
\* The position of the last pair of ws with key k.
LastPair(ws, k) ==
    CHOOSE i \in 1..Len(ws) :
        /\ IsPair(ws[i]) /\ PairKey(ws[i]) = k
        /\ \A j \in (i + 1)..Len(ws) : ~(IsPair(ws[j]) /\ PairKey(ws[j]) = k)
\* A value that is no JSON literal.
Malformed(w) == IsPair(w) /\ JsonParse(PairValue(w)) = Fail
\* The words of a token's text: what follows the id, up to the brackets.
WordsOfToken(tok) ==
    LET inner == Slice0(tok, Len(TokenOpen), Len(tok) - Len(TokenClose))
    IN  Words(Slice0(inner, RunEnd(inner, 0, IdChars), Len(inner)))

\* values is the decoding of the words ws, pair by pair.
DecodedPerPair(ws, values) ==
    LET keys == {PairKey(ws[i]) : i \in {j \in 1..Len(ws) : IsPair(ws[j])}}
    IN  /\ DOMAIN values = keys
        /\ \A k \in keys :
               LET v == PairValue(ws[LastPair(ws, k)])
               IN  values[k] = IF JsonParse(v) = Fail THEN StrV(v) ELSE JsonParse(v)
        /\ \A i \in 1..Len(ws) :
               Malformed(ws[i]) =>
                   LET others == ParamsOfWords(RemoveAt0(ws, i - 1), EmptyMap)
                   IN  \A k \in keys \ {PairKey(ws[i])} : Get(others, k) = values[k]

\* C21: the values the dialog opens with are decoded pair by pair: every key
\* has the value of its last pair, split at the first "=", a JSON literal
\* decoded and anything else kept as the raw text; and with a malformed pair
\* left out, every other key decodes to the same value.
C21_DecodingPerPair ==
    [][lastOp'.op = "open" /\ editingToken' # NoEditing /\ editingToken = NoEditing =>
          DecodedPerPair(WordsOfToken(Slice0(prompt, editingToken'.start, editingToken'.end)),
                         editingToken'.values)]_vars

C21_Witness ==
    /\ lastOp.op = "open"
    /\ editingToken # NoEditing
    /\ DOMAIN editingToken.values = {<<"t">>, <<"n">>}
    /\ editingToken.values[<<"t">>] = StrV(<<"x", "\"">>)
    /\ editingToken.values[<<"n">>] = NumV(0)
    /\ WordsOfToken(Slice0(prompt, editingToken.start, editingToken.end))[1]
           = <<"t","=","x","\"">>

\* A value the dialog holds for the parameter: the key is in the map with a
\* value other than null.
Edited(values, p) == p.key \in DOMAIN values /\ values[p.key] # NullV

\* C22: the saved token lists exactly the declared parameters of the owning
\* definition, in declared order, each with the dialog's value or else the
\* default, whatever order the value map was filled in and whatever other
\* keys it holds.
C22_SerializationDeterministic ==
    [][lastOp'.op = "save" /\ editingToken # NoEditing =>
          LET def == blocks[FindBlock(blocks, editingToken.blockId)].def
              values == editingToken.values
              pair(i) == def.params[i].key \o <<"=">> \o
                             JsonStringify(IF Edited(values, def.params[i])
                                           THEN values[def.params[i].key]
                                           ELSE def.params[i].default)
              text == TokenOpen \o def.id \o <<" ">>
                          \o Join([i \in 1..Len(def.params) |-> pair(i)], <<" ">>)
                          \o TokenClose
          IN  prompt' = Slice0(prompt, 0, editingToken.start) \o text
                            \o Slice0(prompt, editingToken.end, Len(prompt))]_vars

\* A token saved whose words stood in another order than the declared one,
\* with a key the definition does not declare.
C22_Witness ==
    /\ lastOp.op = "save" /\ lastOp.dir # "same"
    /\ prompt = <<"a", " ">> \o TokenOpen \o DefTitle.id
                    \o <<" ","t","=","\"","x","\""," ","n","=","0">> \o TokenClose

\* ------------------------------------------------------- marker properties

\* How many times p occurs in s.
Occurrences(s, p) ==
    Cardinality({i \in 0..(Len(s) - Len(p)) : Slice0(s, i, i + Len(p)) = p})

\* C24: in a token insertion the occurrence of the marker that is replaced by
\* the token is the one put in at the caret, whatever the editor's text is,
\* and the published string has no marker text the editor did not have.
C24_MarkerUnique ==
    [][\A b \in 1..Len(blocks), caret \in Carets(view) :
          (lastOp'.op = "drop" /\ mounted /\ OnEditorDrop(b, caret)) =>
              LET textWithMarker == textFromEditor(mounted, InsertMarker(view, caret), prompt)
              IN  /\ IndexOf(textWithMarker, Marker) = CaretOffset(view, caret)
                  /\ Occurrences(prompt', Marker) = Occurrences(ViewText(view), Marker)]_vars

\* ------------------------------------------------------ release properties

\* C25: when a drop whose insertion raised is through and nothing is pending,
\* neither suppression flag is set.
C25_ReleaseOnExit ==
    (Quiescent /\ lastOp.op = "throw") => (~skipInputRef /\ ~suppressSyncRef)

\* ----------------------------------------------------- scanning properties

\* s is one token: the opening, an id of id characters, parameters without
\* "]", and the closing.
IsTokenText(s) ==
    /\ OccursAt(s, TokenOpen, 0)
    /\ Len(s) > Len(TokenOpen) + Len(TokenClose)
    /\ OccursAt(s, TokenClose, Len(s) - Len(TokenClose))
    /\ LET inner == Slice0(s, Len(TokenOpen), Len(s) - Len(TokenClose))
       IN  \E k \in 1..Len(inner) :
               /\ \A j \in 1..k : inner[j] \in IdChars
               /\ \A j \in (k + 1)..Len(inner) : inner[j] # "]"

\* A token of text starts at 0-based position p.
TokenStartsAt(text, p) ==
    /\ OccursAt(text, TokenOpen, p)
    /\ \E e \in (p + 1)..Len(text) : IsTokenText(Slice0(text, p, e))

C28_NormalizeIdempotent ==
    [][\A id \in SegIds(segments) :
          (lastOp'.op = "remove" /\ lastOp'.id = id /\ Remove(id)) =>
              LET next == SelectSeq(segments, LAMBDA s : s.id # id)
                  once == MergePass(next, nextUid)
              IN  /\ segments' = once
                  /\ MergePass(once, nextUid') = once]_vars

\* A removal has merged three Text segments into one.
C28_Witness ==
    /\ lastOp.op = "remove"
    /\ \E i \in 1..Len(segments) : segments[i].type = "text" /\ Len(segments[i].value) = 3

\* ----------------------------------------------------- response properties

\* The shape README.md gives for a Remotion project.
IsProject(data) ==
    /\ data.t = "obj"
    /\ data.kind = "remotion-project"
    /\ data.files.t = "obj"
    /\ ProjectPaths \subseteq data.files.strings
    /\ ProjectFields \subseteq data.fields

\* C29: a response of POST /api/generate with status 200 is a Remotion
\* project: kind "remotion-project", files with the three paths as strings,
\* and the five composition fields.
C29_OkIsProject == server.status = 200 => IsProject(server.body)

\* callOpenAI failed for the handler: it threw, or its reply is not valid.
UpstreamFailed(outcome) ==
    \/ outcome.t = "throw"
    \/ outcome.t = "return" /\ ~valid(outcome.spec)

\* C30: when the upstream call of a request with a valid body fails, the
\* response is 200 with the local example if DEV_FALLBACK is 1, true or on,
\* and has an error status if DEV_FALLBACK is not set.
C30_FallbackOnFailure ==
    (lastOp.op = "api" /\ UpstreamFailed(server.upstream)) =>
        /\ server.DEV_FALLBACK \in {"1", "true", "on"} =>
               server.status = 200 /\ server.body = fallback
        /\ server.DEV_FALLBACK = "" => server.status >= 400

\* --------------------------------------------------------- save properties

\* The text of the i-th match of text.
TokenTextAt(text, i) == Slice0(text, Matches(text)[i].start, Matches(text)[i].end)

\* after has the tokens of before, but for the one that starts at start.
SameOtherTokens(before, after, start) ==
    /\ Len(Matches(after)) = Len(Matches(before))
    /\ \A i \in 1..Len(Matches(before)) :
           Matches(before)[i].start # start => TokenTextAt(after, i) = TokenTextAt(before, i)

\* C33: a save puts the re-serialized token in place of the edited one: the
\* text before and after it is as it was, the string has as many tokens as
\* before, and every token but the edited one has the text it had.
C33_SaveReplacesToken ==
    [][(lastOp'.op = "save" /\ editingToken # NoEditing) =>
          LET def == blocks[FindBlock(blocks, editingToken.blockId)].def
          IN  /\ prompt' = Slice0(prompt, 0, editingToken.start)
                               \o TokenText(def, editingToken.values)
                               \o Slice0(prompt, editingToken.end, Len(prompt))
              /\ SameOtherTokens(prompt, prompt', editingToken.start)]_vars

\* ---------------------------------------------------- reordering properties

\* How many times segment seg is in segs.
CountOf(segs, seg) == Cardinality({i \in 1..Len(segs) : segs[i] = seg})

\* C34: a move gives a list of the same length that holds every segment as
\* often as before, with the segments other than the moved one in the order
\* they were in; an id that is not in the list leaves the list as it is.
C34_MoveIsReordering ==
    [][lastOp'.op = "move" =>
          /\ Len(segments') = Len(segments)
          /\ \A i \in 1..Len(segments) :
                 CountOf(segments', segments[i]) = CountOf(segments, segments[i])
          /\ Without(segments', lastOp'.id) = Without(segments, lastOp'.id)
          /\ lastOp'.id \notin SegIds(segments) => segments' = segments]_vars

\* A move has taken the segment with the first id to the end of a list of
\* three.
C34_Witness ==
    /\ lastOp.op = "move" /\ lastOp.dir = "forward"
    /\ Len(segments) = 3
    /\ segments[3].id = lastOp.id
    /\ segments[3].id = 0

\* --------------------------------------------------------- input properties

\* C35: a removal leaves the list it was given, and every segment of it, as
\* it was, and the update function run a second time on that list gives the
\* result of the first run.
C35_RemoveKeepsInput ==
    [][lastOp'.op = "remove" =>
          /\ removeSegInput(segments, lastOp'.id) = segments
          /\ removeSeg(removeSegInput(segments, lastOp'.id), lastOp'.id, nextUid) = segments']_vars

\* ------------------------------------------------------ persistence properties

\* C36: after a step that changes the definitions, what blocks_v1 holds reads
\* back as the definitions in memory.
C36_PersistedEqualsBlocks == [][blocks' # blocks => stored' = blocks']_vars

\* ------------------------------------------------------ oscillation properties

EditOps == {"input", "break"}

\* C32: an input event that no insertion is suppressing publishes the text
\* of the editor once and leaves at most the effect of that publication due;
\* that effect leaves the view and prompt as they are, and then nothing is
\* due; every input event is followed by a state in which nothing is due.
C32_NoOscillation ==
    /\ [][((Quiescent /\ ~skipInputRef /\ lastOp'.op \in EditOps) =>
                (/\ prompt' = textFromEditor(mounted, view', prompt)
                 /\ effectPending' = (prompt' # prompt)
                 /\ timers' = <<>>))
          /\ ((effectPending /\ lastOp.op \in EditOps) =>
                (/\ view' = view
                 /\ prompt' = prompt
                 /\ Quiescent'))]_vars
    /\ (lastOp.op \in EditOps) ~> Quiescent
\* An input event has changed prompt, its effect has run, and the view is
\* still what the user made it: it differs from the rendering of prompt.
C32_Witness ==
    /\ lastOp.op \in EditOps /\ lastOp.dir = "changed"
    /\ Quiescent
    /\ ~suppressSyncRef
    /\ view # Rendered

\* ---------------------------------------------------------- server properties

\* The model the request body and the environment of the start call for.
ExpectedModel(body, boot) ==
    IF Boolean(body.model) THEN String(body.model)
    ELSE IF Boolean(body.fast) THEN OrElse(boot.OPENAI_FAST_MODEL, DefaultFastModel)
    ELSE OrElse(boot.OPENAI_MODEL, DefaultModel)

CalledWithExpected(c) ==
    (c.url = "/api/generate" /\ c.model # <<>>) => c.model = ExpectedModel(c.body, server.boot)

\* C31: the model a /api/generate request calls the upstream with is
\* body.model, else the fast model when body.fast is set, else the model
\* configured at the start, whatever other requests asked for before or
\* meanwhile; /api/health reports the model configured at the start.
C31_ModelPerRequest ==
    /\ \A i \in 1..Len(server.conns) : CalledWithExpected(server.conns[i])
    /\ server.last # NoConn =>
          /\ CalledWithExpected(server.last)
          /\ server.last.url = "/api/health" =>
                 server.last.data.model = OrElse(server.boot.OPENAI_MODEL, DefaultModel)
\* /api/health has just answered while a request with a model of its own,
\* which process.env now holds, and a request without one are both waiting
\* for the upstream.
C31_Witness ==
    /\ server.last # NoConn /\ server.last.url = "/api/health"
    /\ server.env.OPENAI_MODEL = <<"o","4">>
    /\ Len(server.conns) = 2
    /\ server.conns[1].model = OrElse(server.boot.OPENAI_MODEL, DefaultModel)
    /\ server.conns[2].model = <<"o","4">>
    /\ server.conns[1].url = "/api/generate"

\* C38: a request that the handler is done with was answered by one write
\* of a response, and that response went out.
C38_ExactlyOneResponse ==
    server.last # NoConn => (server.last.written = 1 /\ server.last.wire = 1)

IsParamRecord(d) == d.t = "obj" /\ d.id /\ d.name /\ d.params

\* C39: POST /api/blocks/params with a JSON body that has the project file
\* is answered 200 with a record of id, name and params, whatever the
\* upstream does; 400 answers only text that is no JSON or a body without
\* the project file.
C39_ParamsAlwaysFallBack ==
    (server.last # NoConn /\ server.last.method = "POST"
        /\ server.last.url = "/api/blocks/params") =>
        /\ (server.last.body.t = "obj" /\ server.last.body.project = "ok") =>
               (server.last.status = 200 /\ IsParamRecord(server.last.data))
        /\ server.last.status = 400 =>
               (server.last.body.t = "text"
                   \/ (server.last.body.t = "obj" /\ server.last.body.project # "ok"))

\* -------------------------------------------------------- progress properties

\* The generation controls are idle.
Idle == ~loading /\ progress = 0 /\ intervals = {} /\ ticking = 0 /\ resetTimers = 0

\* C37: a generate() call starts only when none is under way; when its
\* request has settled no interval is running; progress 100 then stays until
\* the reset puts it to 0; and the controls come back to idle.
C37_GenerateReturnsToIdle ==
    /\ [](~loading => generating = NotGenerating)
    /\ [][/\ (generating.at # "idle" /\ generating'.at = "idle") =>
                 (intervals' = {} /\ ticking' = 0 /\ resetTimers' > 0)
          /\ (progress = 100 /\ loading) => progress' \in {100, 0}]_vars
    /\ (loading /\ (generating.at = "idle" \/ generating.mock)) ~> Idle
\* A request to the real backend has succeeded: progress is 100, the ticker
\* is cleared and the reset is to come.
C37_Witness ==
    /\ lastOp.op = "settled" /\ lastOp.dir = "ok"
    /\ posted.sent
    /\ progress = 100 /\ loading
    /\ intervals = {} /\ resetTimers = 1

====
